---- MODULE Spec2Model ----
(***************************************************************************)
(* Crisis detection and escalation engine of the Omani therapist service   *)
(* (src/services/safety_service.py), as a state machine.                   *)
(* Later sections add the session bookkeeping of TherapyService, the crisis *)
(* analysis of LLMService, and the chat application under src/app (risk    *)
(* filter, handle_turn, the WebSocket handler).                            *)
(*                                                                         *)
(* Text is a sequence of Unicode code points, so that the substring tests  *)
(* of the detectors are computed on the real keyword tables.  Severities   *)
(* that the code keeps as floats with a fractional part of .5 are kept     *)
(* doubled (fields severity / total_severity hold 2 * the Python value);   *)
(* the weighted total of _calculate_crisis_level is kept in twentieths.    *)
(***************************************************************************)
EXTENDS Integers, Sequences, FiniteSets, TLC

(***************************************************************************)
(* The word tables of the service, as sequences of code points             *)
(***************************************************************************)

\* crisis_keywords["suicide"]: انتحار | أقتل نفسي | أنهي حياتي | لا أريد العيش | أموت | أريد أن أموت | ما عدت أريد العيش | انتهيت | سأنهي هذا | أفضل أن أموت | الموت أفضل | لا فائدة
kw_suicide ==
  << <<1575,1606,1578,1581,1575,1585>>,
     <<1571,1602,1578,1604,32,1606,1601,1587,1610>>,
     <<1571,1606,1607,1610,32,1581,1610,1575,1578,1610>>,
     <<1604,1575,32,1571,1585,1610,1583,32,1575,1604,1593,1610,1588>>,
     <<1571,1605,1608,1578>>,
     <<1571,1585,1610,1583,32,1571,1606,32,1571,1605,1608,1578>>,
     <<1605,1575,32,1593,1583,1578,32,1571,1585,1610,1583,32,1575,1604,1593,1610,1588>>,
     <<1575,1606,1578,1607,1610,1578>>,
     <<1587,1571,1606,1607,1610,32,1607,1584,1575>>,
     <<1571,1601,1590,1604,32,1571,1606,32,1571,1605,1608,1578>>,
     <<1575,1604,1605,1608,1578,32,1571,1601,1590,1604>>,
     <<1604,1575,32,1601,1575,1574,1583,1577>> >>

\* crisis_keywords["self_harm"]: أؤذي نفسي | أجرح نفسي | أضرب نفسي | أحرق نفسي | أقطع نفسي | أعذب نفسي | أذية النفس | جروح | أستحق الألم | أعاقب نفسي
kw_self_harm ==
  << <<1571,1572,1584,1610,32,1606,1601,1587,1610>>,
     <<1571,1580,1585,1581,32,1606,1601,1587,1610>>,
     <<1571,1590,1585,1576,32,1606,1601,1587,1610>>,
     <<1571,1581,1585,1602,32,1606,1601,1587,1610>>,
     <<1571,1602,1591,1593,32,1606,1601,1587,1610>>,
     <<1571,1593,1584,1576,32,1606,1601,1587,1610>>,
     <<1571,1584,1610,1577,32,1575,1604,1606,1601,1587>>,
     <<1580,1585,1608,1581>>,
     <<1571,1587,1578,1581,1602,32,1575,1604,1571,1604,1605>>,
     <<1571,1593,1575,1602,1576,32,1606,1601,1587,1610>> >>

\* crisis_keywords["hopelessness"]: لا أمل | ميؤوس | فقدت الأمل | لا فائدة | مستحيل | لن يتحسن | انتهى الأمر | لا معنى | فارغ | ضائع | لا أستطيع | عاجز
kw_hopelessness ==
  << <<1604,1575,32,1571,1605,1604>>,
     <<1605,1610,1572,1608,1587>>,
     <<1601,1602,1583,1578,32,1575,1604,1571,1605,1604>>,
     <<1604,1575,32,1601,1575,1574,1583,1577>>,
     <<1605,1587,1578,1581,1610,1604>>,
     <<1604,1606,32,1610,1578,1581,1587,1606>>,
     <<1575,1606,1578,1607,1609,32,1575,1604,1571,1605,1585>>,
     <<1604,1575,32,1605,1593,1606,1609>>,
     <<1601,1575,1585,1594>>,
     <<1590,1575,1574,1593>>,
     <<1604,1575,32,1571,1587,1578,1591,1610,1593>>,
     <<1593,1575,1580,1586>> >>

\* crisis_keywords["isolation"]: وحيد | لا أحد | منعزل | مهجور | منسي | لا أحد يهتم | لا أحد يفهم | بمفردي | معزول
kw_isolation ==
  << <<1608,1581,1610,1583>>,
     <<1604,1575,32,1571,1581,1583>>,
     <<1605,1606,1593,1586,1604>>,
     <<1605,1607,1580,1608,1585>>,
     <<1605,1606,1587,1610>>,
     <<1604,1575,32,1571,1581,1583,32,1610,1607,1578,1605>>,
     <<1604,1575,32,1571,1581,1583,32,1610,1601,1607,1605>>,
     <<1576,1605,1601,1585,1583,1610>>,
     <<1605,1593,1586,1608,1604>> >>

\* crisis_keywords["substance_abuse"]: مخدرات | كحول | شرب | إدمان | مدمن | حبوب | مواد | تعاطي | سكران | مخمور
kw_substance_abuse ==
  << <<1605,1582,1583,1585,1575,1578>>,
     <<1603,1581,1608,1604>>,
     <<1588,1585,1576>>,
     <<1573,1583,1605,1575,1606>>,
     <<1605,1583,1605,1606>>,
     <<1581,1576,1608,1576>>,
     <<1605,1608,1575,1583>>,
     <<1578,1593,1575,1591,1610>>,
     <<1587,1603,1585,1575,1606>>,
     <<1605,1582,1605,1608,1585>> >>

\* crisis_keywords["violence"]: أضرب | أعتدي | أؤذي الآخرين | عنف | قتل | أقتل | أهدد | انتقام | أدمر | أحطم
kw_violence ==
  << <<1571,1590,1585,1576>>,
     <<1571,1593,1578,1583,1610>>,
     <<1571,1572,1584,1610,32,1575,1604,1570,1582,1585,1610,1606>>,
     <<1593,1606,1601>>,
     <<1602,1578,1604>>,
     <<1571,1602,1578,1604>>,
     <<1571,1607,1583,1583>>,
     <<1575,1606,1578,1602,1575,1605>>,
     <<1571,1583,1605,1585>>,
     <<1571,1581,1591,1605>> >>

\* crisis_keywords["psychosis"]: أسمع أصوات | أرى أشياء | يتحدثون عني | يراقبونني | مؤامرة | يتبعونني | أفكار غريبة | لست أنا
kw_psychosis ==
  << <<1571,1587,1605,1593,32,1571,1589,1608,1575,1578>>,
     <<1571,1585,1609,32,1571,1588,1610,1575,1569>>,
     <<1610,1578,1581,1583,1579,1608,1606,32,1593,1606,1610>>,
     <<1610,1585,1575,1602,1576,1608,1606,1606,1610>>,
     <<1605,1572,1575,1605,1585,1577>>,
     <<1610,1578,1576,1593,1608,1606,1606,1610>>,
     <<1571,1601,1603,1575,1585,32,1594,1585,1610,1576,1577>>,
     <<1604,1587,1578,32,1571,1606,1575>> >>

\* finality_words: آخر مرة | لن أعود | انتهى الأمر | لا رجعة | نهاية
finality_words ==
  << <<1570,1582,1585,32,1605,1585,1577>>,
     <<1604,1606,32,1571,1593,1608,1583>>,
     <<1575,1606,1578,1607,1609,32,1575,1604,1571,1605,1585>>,
     <<1604,1575,32,1585,1580,1593,1577>>,
     <<1606,1607,1575,1610,1577>> >>

\* goodbye_words: وداع | مع السلامة إلى الأبد | لن نلتقي | اعتنوا بأنفسكم
goodbye_words ==
  << <<1608,1583,1575,1593>>,
     <<1605,1593,32,1575,1604,1587,1604,1575,1605,1577,32,1573,1604,1609,32,1575,1604,1571,1576,1583>>,
     <<1604,1606,32,1606,1604,1578,1602,1610>>,
     <<1575,1593,1578,1606,1608,1575,32,1576,1571,1606,1601,1587,1603,1605>> >>

\* extreme_words: دائماً | أبداً | كل شيء | لا شيء | الأسوأ | مستحيل
extreme_words ==
  << <<1583,1575,1574,1605,1575,1611>>,
     <<1571,1576,1583,1575,1611>>,
     <<1603,1604,32,1588,1610,1569>>,
     <<1604,1575,32,1588,1610,1569>>,
     <<1575,1604,1571,1587,1608,1571>>,
     <<1605,1587,1578,1581,1610,1604>> >>

\* worthless_words: لا قيمة لي | عديم الفائدة | فاشل | لا أستحق | عبء
worthless_words ==
  << <<1604,1575,32,1602,1610,1605,1577,32,1604,1610>>,
     <<1593,1583,1610,1605,32,1575,1604,1601,1575,1574,1583,1577>>,
     <<1601,1575,1588,1604>>,
     <<1604,1575,32,1571,1587,1578,1581,1602>>,
     <<1593,1576,1569>> >>

\* ""
text_empty == <<>>

\* "مرحبا كيف حالك"
text_greeting == <<1605,1585,1581,1576,1575,32,1603,1610,1601,32,1581,1575,1604,1603>>

\* "I think about SUICIDE"
text_latin == <<73,32,116,104,105,110,107,32,97,98,111,117,116,32,83,85,73,67,73,68,69>>

\* "أشعر أني وحيد"
text_lonely == <<1571,1588,1593,1585,32,1571,1606,1610,32,1608,1581,1610,1583>>

\* "أفكر في الانتحار"
text_suicide == <<1571,1601,1603,1585,32,1601,1610,32,1575,1604,1575,1606,1578,1581,1575,1585>>

\* "أريد أن أموت"
text_wantdie == <<1571,1585,1610,1583,32,1571,1606,32,1571,1605,1608,1578>>

\* "أجرح نفسي أؤذي نفسي"
text_selfharm == <<1571,1580,1585,1581,32,1606,1601,1587,1610,32,1571,1572,1584,1610,32,1606,1601,1587,1610>>

\* "أقتل نفسي"
text_killself == <<1571,1602,1578,1604,32,1606,1601,1587,1610>>

\* "أقتل نفسي أضرب نفسي"
text_killhit == <<1571,1602,1578,1604,32,1606,1601,1587,1610,32,1571,1590,1585,1576,32,1606,1601,1587,1610>>

\* "وداع لن أعود"
text_farewell == <<1608,1583,1575,1593,32,1604,1606,32,1571,1593,1608,1583>>

\* "انتهى الأمر لا فائدة مستحيل"
text_hopeless == <<1575,1606,1578,1607,1609,32,1575,1604,1571,1605,1585,32,1604,1575,32,1601,1575,1574,1583,1577,32,1605,1587,1578,1581,1610,1604>>

\* "أريد أن أموت وداع" (text_wantdie followed by a goodbye phrase)
text_wantbye == <<1571,1585,1610,1583,32,1571,1606,32,1571,1605,1608,1578,32,1608,1583,1575,1593>>

\* rec_immediate: تدخل فوري مطلوب | تحويل للطوارئ النفسية | عدم ترك المستخدم وحيداً | تفعيل بروتوكول الطوارئ
rec_immediate ==
  << <<1578,1583,1582,1604,32,1601,1608,1585,1610,32,1605,1591,1604,1608,1576>>,
     <<1578,1581,1608,1610,1604,32,1604,1604,1591,1608,1575,1585,1574,32,1575,1604,1606,1601,1587,1610,1577>>,
     <<1593,1583,1605,32,1578,1585,1603,32,1575,1604,1605,1587,1578,1582,1583,1605,32,1608,1581,1610,1583,1575,1611>>,
     <<1578,1601,1593,1610,1604,32,1576,1585,1608,1578,1608,1603,1608,1604,32,1575,1604,1591,1608,1575,1585,1574>> >>

\* rec_urgent: مراقبة مستمرة مطلوبة | تحويل لمختص في أقرب وقت | إشراك الأسرة إذا أمكن | متابعة خلال 24 ساعة
rec_urgent ==
  << <<1605,1585,1575,1602,1576,1577,32,1605,1587,1578,1605,1585,1577,32,1605,1591,1604,1608,1576,1577>>,
     <<1578,1581,1608,1610,1604,32,1604,1605,1582,1578,1589,32,1601,1610,32,1571,1602,1585,1576,32,1608,1602,1578>>,
     <<1573,1588,1585,1575,1603,32,1575,1604,1571,1587,1585,1577,32,1573,1584,1575,32,1571,1605,1603,1606>>,
     <<1605,1578,1575,1576,1593,1577,32,1582,1604,1575,1604,32,50,52,32,1587,1575,1593,1577>> >>

\* rec_moderate: تقييم دوري للحالة | تعزيز شبكة الدعم | جدولة متابعة خلال أسبوع | توفير موارد المساعدة الذاتية
rec_moderate ==
  << <<1578,1602,1610,1610,1605,32,1583,1608,1585,1610,32,1604,1604,1581,1575,1604,1577>>,
     <<1578,1593,1586,1610,1586,32,1588,1576,1603,1577,32,1575,1604,1583,1593,1605>>,
     <<1580,1583,1608,1604,1577,32,1605,1578,1575,1576,1593,1577,32,1582,1604,1575,1604,32,1571,1587,1576,1608,1593>>,
     <<1578,1608,1601,1610,1585,32,1605,1608,1575,1585,1583,32,1575,1604,1605,1587,1575,1593,1583,1577,32,1575,1604,1584,1575,1578,1610,1577>> >>

\* rec_other: مواصلة الدعم العاطفي | مراقبة التطور | تعزيز آليات التأقلم الصحية
rec_other ==
  << <<1605,1608,1575,1589,1604,1577,32,1575,1604,1583,1593,1605,32,1575,1604,1593,1575,1591,1601,1610>>,
     <<1605,1585,1575,1602,1576,1577,32,1575,1604,1578,1591,1608,1585>>,
     <<1578,1593,1586,1610,1586,32,1570,1604,1610,1575,1578,32,1575,1604,1578,1571,1602,1604,1605,32,1575,1604,1589,1581,1610,1577>> >>

\* "تدخل طوارئ فوري - اتصل بـ 999"
esc_immediate_danger == <<1578,1583,1582,1604,32,1591,1608,1575,1585,1574,32,1601,1608,1585,1610,32,45,32,1575,1578,1589,1604,32,1576,1600,32,57,57,57>>

\* "تحويل عاجل لطبيب نفسي متخصص"
esc_sustained_high_risk == <<1578,1581,1608,1610,1604,32,1593,1575,1580,1604,32,1604,1591,1576,1610,1576,32,1606,1601,1587,1610,32,1605,1578,1582,1589,1589>>

\* "تقييم نفسي شامل مطلوب"
esc_increasing_severity == <<1578,1602,1610,1610,1605,32,1606,1601,1587,1610,32,1588,1575,1605,1604,32,1605,1591,1604,1608,1576>>

\* "إشراف طبي مباشر مطلوب"
esc_failed_interventions == <<1573,1588,1585,1575,1601,32,1591,1576,1610,32,1605,1576,1575,1588,1585,32,1605,1591,1604,1608,1576>>

\* "مواصلة المراقبة والدعم"
esc_default == <<1605,1608,1575,1589,1604,1577,32,1575,1604,1605,1585,1575,1602,1576,1577,32,1608,1575,1604,1583,1593,1605>>

(***************************************************************************)
(* The messages the environment sends                                      *)
(***************************************************************************)

\* the text of each message, by name
Text ==
  [ m_empty    |-> text_empty,
    m_greeting |-> text_greeting,
    m_latin    |-> text_latin,
    m_lonely   |-> text_lonely,
    m_suicide  |-> text_suicide,
    m_wantdie  |-> text_wantdie,
    m_selfharm |-> text_selfharm,
    m_killself |-> text_killself,
    m_killhit  |-> text_killhit,
    m_farewell |-> text_farewell,
    m_hopeless |-> text_hopeless,
    m_wantbye  |-> text_wantbye ]

Messages == DOMAIN Text

(***************************************************************************)
(* Text helpers                                                            *)
(***************************************************************************)

\* A message that is not a string (Python None): message.lower() raises.
None == "None"

\* The case tables of str.lower() (Unicode 14.0, the database of the
\* interpreter).  LowerRuns: << first, last, d >>, every code point of
\* first..last has its lower case d further on.
LowerRuns ==
  { << 65, 90, 32 >>, << 192, 214, 32 >>, << 216, 222, 32 >>, << 376, 376, -121 >>, << 385, 385, 210 >>,
    << 390, 390, 206 >>, << 391, 391, 1 >>, << 393, 394, 205 >>, << 395, 395, 1 >>, << 398, 398, 79 >>,
    << 399, 399, 202 >>, << 400, 400, 203 >>, << 401, 401, 1 >>, << 403, 403, 205 >>, << 404, 404, 207 >>,
    << 406, 406, 211 >>, << 407, 407, 209 >>, << 408, 408, 1 >>, << 412, 412, 211 >>, << 413, 413, 213 >>,
    << 415, 415, 214 >>, << 422, 422, 218 >>, << 423, 423, 1 >>, << 425, 425, 218 >>, << 428, 428, 1 >>,
    << 430, 430, 218 >>, << 431, 431, 1 >>, << 433, 434, 217 >>, << 439, 439, 219 >>, << 440, 440, 1 >>,
    << 444, 444, 1 >>, << 452, 452, 2 >>, << 453, 453, 1 >>, << 455, 455, 2 >>, << 456, 456, 1 >>,
    << 458, 458, 2 >>, << 497, 497, 2 >>, << 502, 502, -97 >>, << 503, 503, -56 >>, << 544, 544, -130 >>,
    << 570, 570, 10795 >>, << 571, 571, 1 >>, << 573, 573, -163 >>, << 574, 574, 10792 >>, << 577, 577, 1 >>,
    << 579, 579, -195 >>, << 580, 580, 69 >>, << 581, 581, 71 >>, << 886, 886, 1 >>, << 895, 895, 116 >>,
    << 902, 902, 38 >>, << 904, 906, 37 >>, << 908, 908, 64 >>, << 910, 911, 63 >>, << 913, 929, 32 >>,
    << 931, 939, 32 >>, << 975, 975, 8 >>, << 1012, 1012, -60 >>, << 1015, 1015, 1 >>, << 1017, 1017, -7 >>,
    << 1018, 1018, 1 >>, << 1021, 1023, -130 >>, << 1024, 1039, 80 >>, << 1040, 1071, 32 >>, << 1216, 1216, 15 >>,
    << 1329, 1366, 48 >>, << 4256, 4293, 7264 >>, << 4295, 4295, 7264 >>, << 4301, 4301, 7264 >>, << 5024, 5103, 38864 >>,
    << 5104, 5109, 8 >>, << 7312, 7354, -3008 >>, << 7357, 7359, -3008 >>, << 7838, 7838, -7615 >>, << 7944, 7951, -8 >>,
    << 7960, 7965, -8 >>, << 7976, 7983, -8 >>, << 7992, 7999, -8 >>, << 8008, 8013, -8 >>, << 8025, 8025, -8 >>,
    << 8027, 8027, -8 >>, << 8029, 8029, -8 >>, << 8031, 8031, -8 >>, << 8040, 8047, -8 >>, << 8072, 8079, -8 >>,
    << 8088, 8095, -8 >>, << 8104, 8111, -8 >>, << 8120, 8121, -8 >>, << 8122, 8123, -74 >>, << 8124, 8124, -9 >>,
    << 8136, 8139, -86 >>, << 8140, 8140, -9 >>, << 8152, 8153, -8 >>, << 8154, 8155, -100 >>, << 8168, 8169, -8 >>,
    << 8170, 8171, -112 >>, << 8172, 8172, -7 >>, << 8184, 8185, -128 >>, << 8186, 8187, -126 >>, << 8188, 8188, -9 >>,
    << 8486, 8486, -7517 >>, << 8490, 8490, -8383 >>, << 8491, 8491, -8262 >>, << 8498, 8498, 28 >>, << 8544, 8559, 16 >>,
    << 8579, 8579, 1 >>, << 9398, 9423, 26 >>, << 11264, 11311, 48 >>, << 11360, 11360, 1 >>, << 11362, 11362, -10743 >>,
    << 11363, 11363, -3814 >>, << 11364, 11364, -10727 >>, << 11373, 11373, -10780 >>, << 11374, 11374, -10749 >>, << 11375, 11375, -10783 >>,
    << 11376, 11376, -10782 >>, << 11378, 11378, 1 >>, << 11381, 11381, 1 >>, << 11390, 11391, -10815 >>, << 11506, 11506, 1 >>,
    << 42877, 42877, -35332 >>, << 42891, 42891, 1 >>, << 42893, 42893, -42280 >>, << 42922, 42922, -42308 >>, << 42923, 42923, -42319 >>,
    << 42924, 42924, -42315 >>, << 42925, 42925, -42305 >>, << 42926, 42926, -42308 >>, << 42928, 42928, -42258 >>, << 42929, 42929, -42282 >>,
    << 42930, 42930, -42261 >>, << 42931, 42931, 928 >>, << 42948, 42948, -48 >>, << 42949, 42949, -42307 >>, << 42950, 42950, -35384 >>,
    << 42960, 42960, 1 >>, << 42997, 42997, 1 >>, << 65313, 65338, 32 >>, << 66560, 66599, 40 >>, << 66736, 66771, 40 >>,
    << 66928, 66938, 39 >>, << 66940, 66954, 39 >>, << 66956, 66962, 39 >>, << 66964, 66965, 39 >>, << 68736, 68786, 64 >>,
    << 71840, 71871, 32 >>, << 93760, 93791, 32 >>, << 125184, 125217, 34 >> }

\* << first, last >>: every second code point from first to last has its
\* lower case right after it
LowerAlternating ==
  { << 256, 302 >>, << 306, 310 >>, << 313, 327 >>, << 330, 374 >>, << 377, 381 >>, << 386, 388 >>, << 416, 420 >>,
    << 435, 437 >>, << 459, 475 >>, << 478, 494 >>, << 498, 500 >>, << 504, 542 >>, << 546, 562 >>, << 582, 590 >>,
    << 880, 882 >>, << 984, 1006 >>, << 1120, 1152 >>, << 1162, 1214 >>, << 1217, 1229 >>, << 1232, 1326 >>, << 7680, 7828 >>,
    << 7840, 7934 >>, << 11367, 11371 >>, << 11392, 11490 >>, << 11499, 11501 >>, << 42560, 42604 >>, << 42624, 42650 >>, << 42786, 42798 >>,
    << 42802, 42862 >>, << 42873, 42875 >>, << 42878, 42886 >>, << 42896, 42898 >>, << 42902, 42920 >>, << 42932, 42946 >>, << 42951, 42953 >>,
    << 42966, 42968 >> }

\* the code points with the property Cased, as << first, last >>
CasedRanges ==
  { << 65, 90 >>, << 97, 122 >>, << 170, 170 >>, << 181, 181 >>, << 186, 186 >>, << 192, 214 >>, << 216, 246 >>,
    << 248, 442 >>, << 444, 447 >>, << 452, 659 >>, << 661, 696 >>, << 704, 705 >>, << 736, 740 >>, << 837, 837 >>,
    << 880, 883 >>, << 886, 887 >>, << 890, 893 >>, << 895, 895 >>, << 902, 902 >>, << 904, 906 >>, << 908, 908 >>,
    << 910, 929 >>, << 931, 1013 >>, << 1015, 1153 >>, << 1162, 1327 >>, << 1329, 1366 >>, << 1376, 1416 >>, << 4256, 4293 >>,
    << 4295, 4295 >>, << 4301, 4301 >>, << 4304, 4346 >>, << 4349, 4351 >>, << 5024, 5109 >>, << 5112, 5117 >>, << 7296, 7304 >>,
    << 7312, 7354 >>, << 7357, 7359 >>, << 7424, 7615 >>, << 7680, 7957 >>, << 7960, 7965 >>, << 7968, 8005 >>, << 8008, 8013 >>,
    << 8016, 8023 >>, << 8025, 8025 >>, << 8027, 8027 >>, << 8029, 8029 >>, << 8031, 8061 >>, << 8064, 8116 >>, << 8118, 8124 >>,
    << 8126, 8126 >>, << 8130, 8132 >>, << 8134, 8140 >>, << 8144, 8147 >>, << 8150, 8155 >>, << 8160, 8172 >>, << 8178, 8180 >>,
    << 8182, 8188 >>, << 8305, 8305 >>, << 8319, 8319 >>, << 8336, 8348 >>, << 8450, 8450 >>, << 8455, 8455 >>, << 8458, 8467 >>,
    << 8469, 8469 >>, << 8473, 8477 >>, << 8484, 8484 >>, << 8486, 8486 >>, << 8488, 8488 >>, << 8490, 8493 >>, << 8495, 8500 >>,
    << 8505, 8505 >>, << 8508, 8511 >>, << 8517, 8521 >>, << 8526, 8526 >>, << 8544, 8575 >>, << 8579, 8580 >>, << 9398, 9449 >>,
    << 11264, 11492 >>, << 11499, 11502 >>, << 11506, 11507 >>, << 11520, 11557 >>, << 11559, 11559 >>, << 11565, 11565 >>, << 42560, 42605 >>,
    << 42624, 42653 >>, << 42786, 42887 >>, << 42891, 42894 >>, << 42896, 42954 >>, << 42960, 42961 >>, << 42963, 42963 >>, << 42965, 42969 >>,
    << 42997, 42998 >>, << 43000, 43002 >>, << 43824, 43866 >>, << 43868, 43880 >>, << 43888, 43967 >>, << 64256, 64262 >>, << 64275, 64279 >>,
    << 65313, 65338 >>, << 65345, 65370 >>, << 66560, 66639 >>, << 66736, 66771 >>, << 66776, 66811 >>, << 66928, 66938 >>, << 66940, 66954 >>,
    << 66956, 66962 >>, << 66964, 66965 >>, << 66967, 66977 >>, << 66979, 66993 >>, << 66995, 67001 >>, << 67003, 67004 >>, << 67456, 67456 >>,
    << 67459, 67461 >>, << 67463, 67504 >>, << 67506, 67514 >>, << 68736, 68786 >>, << 68800, 68850 >>, << 71840, 71903 >>, << 93760, 93823 >>,
    << 119808, 119892 >>, << 119894, 119964 >>, << 119966, 119967 >>, << 119970, 119970 >>, << 119973, 119974 >>, << 119977, 119980 >>, << 119982, 119993 >>,
    << 119995, 119995 >>, << 119997, 120003 >>, << 120005, 120069 >>, << 120071, 120074 >>, << 120077, 120084 >>, << 120086, 120092 >>, << 120094, 120121 >>,
    << 120123, 120126 >>, << 120128, 120132 >>, << 120134, 120134 >>, << 120138, 120144 >>, << 120146, 120485 >>, << 120488, 120512 >>, << 120514, 120538 >>,
    << 120540, 120570 >>, << 120572, 120596 >>, << 120598, 120628 >>, << 120630, 120654 >>, << 120656, 120686 >>, << 120688, 120712 >>, << 120714, 120744 >>,
    << 120746, 120770 >>, << 120772, 120779 >>, << 122624, 122633 >>, << 122635, 122654 >>, << 125184, 125251 >>, << 127280, 127305 >>, << 127312, 127337 >>,
    << 127344, 127369 >> }

\* the code points with the property Case_Ignorable, as << first, last >>
CaseIgnorableRanges ==
  { << 39, 39 >>, << 46, 46 >>, << 58, 58 >>, << 94, 94 >>, << 96, 96 >>, << 168, 168 >>, << 173, 173 >>,
    << 175, 175 >>, << 180, 180 >>, << 183, 184 >>, << 688, 879 >>, << 884, 885 >>, << 890, 890 >>, << 900, 901 >>,
    << 903, 903 >>, << 1155, 1161 >>, << 1369, 1369 >>, << 1375, 1375 >>, << 1425, 1469 >>, << 1471, 1471 >>, << 1473, 1474 >>,
    << 1476, 1477 >>, << 1479, 1479 >>, << 1524, 1524 >>, << 1536, 1541 >>, << 1552, 1562 >>, << 1564, 1564 >>, << 1600, 1600 >>,
    << 1611, 1631 >>, << 1648, 1648 >>, << 1750, 1757 >>, << 1759, 1768 >>, << 1770, 1773 >>, << 1807, 1807 >>, << 1809, 1809 >>,
    << 1840, 1866 >>, << 1958, 1968 >>, << 2027, 2037 >>, << 2042, 2042 >>, << 2045, 2045 >>, << 2070, 2093 >>, << 2137, 2139 >>,
    << 2184, 2184 >>, << 2192, 2193 >>, << 2200, 2207 >>, << 2249, 2306 >>, << 2362, 2362 >>, << 2364, 2364 >>, << 2369, 2376 >>,
    << 2381, 2381 >>, << 2385, 2391 >>, << 2402, 2403 >>, << 2417, 2417 >>, << 2433, 2433 >>, << 2492, 2492 >>, << 2497, 2500 >>,
    << 2509, 2509 >>, << 2530, 2531 >>, << 2558, 2558 >>, << 2561, 2562 >>, << 2620, 2620 >>, << 2625, 2626 >>, << 2631, 2632 >>,
    << 2635, 2637 >>, << 2641, 2641 >>, << 2672, 2673 >>, << 2677, 2677 >>, << 2689, 2690 >>, << 2748, 2748 >>, << 2753, 2757 >>,
    << 2759, 2760 >>, << 2765, 2765 >>, << 2786, 2787 >>, << 2810, 2815 >>, << 2817, 2817 >>, << 2876, 2876 >>, << 2879, 2879 >>,
    << 2881, 2884 >>, << 2893, 2893 >>, << 2901, 2902 >>, << 2914, 2915 >>, << 2946, 2946 >>, << 3008, 3008 >>, << 3021, 3021 >>,
    << 3072, 3072 >>, << 3076, 3076 >>, << 3132, 3132 >>, << 3134, 3136 >>, << 3142, 3144 >>, << 3146, 3149 >>, << 3157, 3158 >>,
    << 3170, 3171 >>, << 3201, 3201 >>, << 3260, 3260 >>, << 3263, 3263 >>, << 3270, 3270 >>, << 3276, 3277 >>, << 3298, 3299 >>,
    << 3328, 3329 >>, << 3387, 3388 >>, << 3393, 3396 >>, << 3405, 3405 >>, << 3426, 3427 >>, << 3457, 3457 >>, << 3530, 3530 >>,
    << 3538, 3540 >>, << 3542, 3542 >>, << 3633, 3633 >>, << 3636, 3642 >>, << 3654, 3662 >>, << 3761, 3761 >>, << 3764, 3772 >>,
    << 3782, 3782 >>, << 3784, 3789 >>, << 3864, 3865 >>, << 3893, 3893 >>, << 3895, 3895 >>, << 3897, 3897 >>, << 3953, 3966 >>,
    << 3968, 3972 >>, << 3974, 3975 >>, << 3981, 3991 >>, << 3993, 4028 >>, << 4038, 4038 >>, << 4141, 4144 >>, << 4146, 4151 >>,
    << 4153, 4154 >>, << 4157, 4158 >>, << 4184, 4185 >>, << 4190, 4192 >>, << 4209, 4212 >>, << 4226, 4226 >>, << 4229, 4230 >>,
    << 4237, 4237 >>, << 4253, 4253 >>, << 4348, 4348 >>, << 4957, 4959 >>, << 5906, 5908 >>, << 5938, 5939 >>, << 5970, 5971 >>,
    << 6002, 6003 >>, << 6068, 6069 >>, << 6071, 6077 >>, << 6086, 6086 >>, << 6089, 6099 >>, << 6103, 6103 >>, << 6109, 6109 >>,
    << 6155, 6159 >>, << 6211, 6211 >>, << 6277, 6278 >>, << 6313, 6313 >>, << 6432, 6434 >>, << 6439, 6440 >>, << 6450, 6450 >>,
    << 6457, 6459 >>, << 6679, 6680 >>, << 6683, 6683 >>, << 6742, 6742 >>, << 6744, 6750 >>, << 6752, 6752 >>, << 6754, 6754 >>,
    << 6757, 6764 >>, << 6771, 6780 >>, << 6783, 6783 >>, << 6823, 6823 >>, << 6832, 6862 >>, << 6912, 6915 >>, << 6964, 6964 >>,
    << 6966, 6970 >>, << 6972, 6972 >>, << 6978, 6978 >>, << 7019, 7027 >>, << 7040, 7041 >>, << 7074, 7077 >>, << 7080, 7081 >>,
    << 7083, 7085 >>, << 7142, 7142 >>, << 7144, 7145 >>, << 7149, 7149 >>, << 7151, 7153 >>, << 7212, 7219 >>, << 7222, 7223 >>,
    << 7288, 7293 >>, << 7376, 7378 >>, << 7380, 7392 >>, << 7394, 7400 >>, << 7405, 7405 >>, << 7412, 7412 >>, << 7416, 7417 >>,
    << 7468, 7530 >>, << 7544, 7544 >>, << 7579, 7679 >>, << 8125, 8125 >>, << 8127, 8129 >>, << 8141, 8143 >>, << 8157, 8159 >>,
    << 8173, 8175 >>, << 8189, 8190 >>, << 8203, 8207 >>, << 8216, 8217 >>, << 8228, 8228 >>, << 8231, 8231 >>, << 8234, 8238 >>,
    << 8288, 8292 >>, << 8294, 8303 >>, << 8305, 8305 >>, << 8319, 8319 >>, << 8336, 8348 >>, << 8400, 8432 >>, << 11388, 11389 >>,
    << 11503, 11505 >>, << 11631, 11631 >>, << 11647, 11647 >>, << 11744, 11775 >>, << 11823, 11823 >>, << 12293, 12293 >>, << 12330, 12333 >>,
    << 12337, 12341 >>, << 12347, 12347 >>, << 12441, 12446 >>, << 12540, 12542 >>, << 40981, 40981 >>, << 42232, 42237 >>, << 42508, 42508 >>,
    << 42607, 42610 >>, << 42612, 42621 >>, << 42623, 42623 >>, << 42652, 42655 >>, << 42736, 42737 >>, << 42752, 42785 >>, << 42864, 42864 >>,
    << 42888, 42890 >>, << 42994, 42996 >>, << 43000, 43001 >>, << 43010, 43010 >>, << 43014, 43014 >>, << 43019, 43019 >>, << 43045, 43046 >>,
    << 43052, 43052 >>, << 43204, 43205 >>, << 43232, 43249 >>, << 43263, 43263 >>, << 43302, 43309 >>, << 43335, 43345 >>, << 43392, 43394 >>,
    << 43443, 43443 >>, << 43446, 43449 >>, << 43452, 43453 >>, << 43471, 43471 >>, << 43493, 43494 >>, << 43561, 43566 >>, << 43569, 43570 >>,
    << 43573, 43574 >>, << 43587, 43587 >>, << 43596, 43596 >>, << 43632, 43632 >>, << 43644, 43644 >>, << 43696, 43696 >>, << 43698, 43700 >>,
    << 43703, 43704 >>, << 43710, 43711 >>, << 43713, 43713 >>, << 43741, 43741 >>, << 43756, 43757 >>, << 43763, 43764 >>, << 43766, 43766 >>,
    << 43867, 43871 >>, << 43881, 43883 >>, << 44005, 44005 >>, << 44008, 44008 >>, << 44013, 44013 >>, << 64286, 64286 >>, << 64434, 64450 >>,
    << 65024, 65039 >>, << 65043, 65043 >>, << 65056, 65071 >>, << 65106, 65106 >>, << 65109, 65109 >>, << 65279, 65279 >>, << 65287, 65287 >>,
    << 65294, 65294 >>, << 65306, 65306 >>, << 65342, 65342 >>, << 65344, 65344 >>, << 65392, 65392 >>, << 65438, 65439 >>, << 65507, 65507 >>,
    << 65529, 65531 >>, << 66045, 66045 >>, << 66272, 66272 >>, << 66422, 66426 >>, << 67456, 67461 >>, << 67463, 67504 >>, << 67506, 67514 >>,
    << 68097, 68099 >>, << 68101, 68102 >>, << 68108, 68111 >>, << 68152, 68154 >>, << 68159, 68159 >>, << 68325, 68326 >>, << 68900, 68903 >>,
    << 69291, 69292 >>, << 69446, 69456 >>, << 69506, 69509 >>, << 69633, 69633 >>, << 69688, 69702 >>, << 69744, 69744 >>, << 69747, 69748 >>,
    << 69759, 69761 >>, << 69811, 69814 >>, << 69817, 69818 >>, << 69821, 69821 >>, << 69826, 69826 >>, << 69837, 69837 >>, << 69888, 69890 >>,
    << 69927, 69931 >>, << 69933, 69940 >>, << 70003, 70003 >>, << 70016, 70017 >>, << 70070, 70078 >>, << 70089, 70092 >>, << 70095, 70095 >>,
    << 70191, 70193 >>, << 70196, 70196 >>, << 70198, 70199 >>, << 70206, 70206 >>, << 70367, 70367 >>, << 70371, 70378 >>, << 70400, 70401 >>,
    << 70459, 70460 >>, << 70464, 70464 >>, << 70502, 70508 >>, << 70512, 70516 >>, << 70712, 70719 >>, << 70722, 70724 >>, << 70726, 70726 >>,
    << 70750, 70750 >>, << 70835, 70840 >>, << 70842, 70842 >>, << 70847, 70848 >>, << 70850, 70851 >>, << 71090, 71093 >>, << 71100, 71101 >>,
    << 71103, 71104 >>, << 71132, 71133 >>, << 71219, 71226 >>, << 71229, 71229 >>, << 71231, 71232 >>, << 71339, 71339 >>, << 71341, 71341 >>,
    << 71344, 71349 >>, << 71351, 71351 >>, << 71453, 71455 >>, << 71458, 71461 >>, << 71463, 71467 >>, << 71727, 71735 >>, << 71737, 71738 >>,
    << 71995, 71996 >>, << 71998, 71998 >>, << 72003, 72003 >>, << 72148, 72151 >>, << 72154, 72155 >>, << 72160, 72160 >>, << 72193, 72202 >>,
    << 72243, 72248 >>, << 72251, 72254 >>, << 72263, 72263 >>, << 72273, 72278 >>, << 72281, 72283 >>, << 72330, 72342 >>, << 72344, 72345 >>,
    << 72752, 72758 >>, << 72760, 72765 >>, << 72767, 72767 >>, << 72850, 72871 >>, << 72874, 72880 >>, << 72882, 72883 >>, << 72885, 72886 >>,
    << 73009, 73014 >>, << 73018, 73018 >>, << 73020, 73021 >>, << 73023, 73029 >>, << 73031, 73031 >>, << 73104, 73105 >>, << 73109, 73109 >>,
    << 73111, 73111 >>, << 73459, 73460 >>, << 78896, 78904 >>, << 92912, 92916 >>, << 92976, 92982 >>, << 92992, 92995 >>, << 94031, 94031 >>,
    << 94095, 94111 >>, << 94176, 94177 >>, << 94179, 94180 >>, << 110576, 110579 >>, << 110581, 110587 >>, << 110589, 110590 >>, << 113821, 113822 >>,
    << 113824, 113827 >>, << 118528, 118573 >>, << 118576, 118598 >>, << 119143, 119145 >>, << 119155, 119170 >>, << 119173, 119179 >>, << 119210, 119213 >>,
    << 119362, 119364 >>, << 121344, 121398 >>, << 121403, 121452 >>, << 121461, 121461 >>, << 121476, 121476 >>, << 121499, 121503 >>, << 121505, 121519 >>,
    << 122880, 122886 >>, << 122888, 122904 >>, << 122907, 122913 >>, << 122915, 122916 >>, << 122918, 122922 >>, << 123184, 123197 >>, << 123566, 123566 >>,
    << 123628, 123631 >>, << 125136, 125142 >>, << 125252, 125259 >>, << 127995, 127999 >>, << 917505, 917505 >>, << 917536, 917631 >>, << 917760, 917999 >> }

IsCased(c) == \E r \in CasedRanges : c >= r[1] /\ c <= r[2]

IsCaseIgnorable(c) == \E r \in CaseIgnorableRanges : c >= r[1] /\ c <= r[2]

\* str.lower() on one code point standing alone: the code points of its
\* lower case (two for U+0130, the capital I with a dot)
LowerChar(c) ==
  IF c = 304 THEN << 105, 775 >>
  ELSE IF \E r \in LowerRuns : c >= r[1] /\ c <= r[2]
  THEN << c + (CHOOSE r \in LowerRuns : c >= r[1] /\ c <= r[2])[3] >>
  ELSE IF \E r \in LowerAlternating : c >= r[1] /\ c <= r[2] /\ (c - r[1]) % 2 = 0
  THEN << c + 1 >>
  ELSE << c >>

\* the nearest code point before position j that is not case-ignorable is cased
RECURSIVE CasedBefore(_, _)
CasedBefore(text, j) ==
  IF j < 1 THEN FALSE
  ELSE IF IsCaseIgnorable(text[j]) THEN CasedBefore(text, j - 1)
  ELSE IsCased(text[j])

\* the nearest code point from position j on that is not case-ignorable is cased
RECURSIVE CasedAfter(_, _)
CasedAfter(text, j) ==
  IF j > Len(text) THEN FALSE
  ELSE IF IsCaseIgnorable(text[j]) THEN CasedAfter(text, j + 1)
  ELSE IsCased(text[j])

\* the lower case of the code point at position i of text: a capital sigma
\* (931) at the end of a word becomes the final sigma (962)
LowerAt(text, i) ==
  IF text[i] = 931
  THEN (IF CasedBefore(text, i - 1) /\ ~CasedAfter(text, i + 1)
        THEN << 962 >> ELSE << 963 >>)
  ELSE LowerChar(text[i])

RECURSIVE LowerFrom(_, _)
LowerFrom(text, i) ==
  IF i > Len(text) THEN << >> ELSE LowerAt(text, i) \o LowerFrom(text, i + 1)

\* str.lower()
Lower(text) == LowerFrom(text, 1)

\* the code points str.strip() removes
Whitespace ==
  { 9, 10, 11, 12, 13, 28, 29, 30, 31, 32, 133, 160, 5760, 8192,
    8193, 8194, 8195, 8196, 8197, 8198, 8199, 8200, 8201, 8202, 8232, 8233, 8239, 8287,
    12288 }

RECURSIVE StripLeft(_)
StripLeft(text) ==
  IF text # << >> /\ Head(text) \in Whitespace THEN StripLeft(Tail(text)) ELSE text

RECURSIVE StripRight(_)
StripRight(text) ==
  IF text # << >> /\ text[Len(text)] \in Whitespace
  THEN StripRight(SubSeq(text, 1, Len(text) - 1)) ELSE text

\* str.strip()
Strip(text) == StripRight(StripLeft(text))

\* Python's `kw in text` on strings: kw occurs as a contiguous substring.
Contains(text, kw) ==
  \E i \in 1..(Len(text) - Len(kw) + 1) : SubSeq(text, i, i + Len(kw) - 1) = kw

\* sum(1 for word in words if word in text)
CountIn(words, text) == Len(SelectSeq(words, LAMBDA w : Contains(text, w)))

Min(a, b) == IF a < b THEN a ELSE b
Max(a, b) == IF a > b THEN a ELSE b

\* the elements of a sequence, as a set
Range(s) == {s[i] : i \in 1..Len(s)}

\* s[:n] in place of s[-n:]: the first n elements
LastN_head(s, n) == IF Len(s) <= n THEN s ELSE SubSeq(s, 1, n)

\* s[-n:] of Python: the last n elements (all of s when it is shorter)
LastN(s, n) == IF Len(s) <= n THEN s ELSE SubSeq(s, Len(s) - n + 1, Len(s))

(***************************************************************************)
(* SafetyService.__init__                                                  *)
(***************************************************************************)

\* self.crisis_thresholds with the high threshold at the low one
crisis_thresholds_high3 == [low |-> 3, medium |-> 5, high |-> 3, critical |-> 9]

\* self.crisis_thresholds
crisis_thresholds == [low |-> 3, medium |-> 5, high |-> 7, critical |-> 9]

\* the keys of self.crisis_keywords, in the insertion order of the dict
CategoryOrder ==
  << "suicide", "self_harm", "hopelessness", "isolation",
     "substance_abuse", "violence", "psychosis" >>

\* self.crisis_keywords
crisis_keywords ==
  [ suicide         |-> kw_suicide,
    self_harm       |-> kw_self_harm,
    hopelessness    |-> kw_hopelessness,
    isolation       |-> kw_isolation,
    substance_abuse |-> kw_substance_abuse,
    violence        |-> kw_violence,
    psychosis       |-> kw_psychosis ]

(***************************************************************************)
(* _analyze_crisis_keywords                                                *)
(***************************************************************************)

\* CategoryWeight with the suicide category weighted like the default (1)
CategoryWeight_flat(category) ==
  CASE category = "self_harm" -> 5
    [] category = "violence"  -> 5
    [] category = "psychosis" -> 4
    [] OTHER                  -> 2

\* 2 * the weight one matched keyword adds to its category's severity
CategoryWeight(category) ==
  CASE category = "suicide"   -> 6
    [] category = "self_harm" -> 5
    [] category = "violence"  -> 5
    [] category = "psychosis" -> 4
    [] OTHER                  -> 2

\* the keywords of a category found in the lower-cased message, in list order
CategoryMatches(category, message_lower) ==
  SelectSeq(crisis_keywords[category], LAMBDA kw : Contains(message_lower, kw))

\* keyword_matches: one entry per category with at least one match
KeywordMatches(message_lower) ==
  LET matched == {c \in Range(CategoryOrder) :
                    CategoryMatches(c, message_lower) # << >>}
  IN  [c \in matched |->
         LET matches == CategoryMatches(c, message_lower)
         IN  [ matches  |-> matches,
               count    |-> Len(matches),
               severity |-> Len(matches) * CategoryWeight(c) ]]

RECURSIVE SumSeverity(_, _)
\* total_severity before clamping: the sum over the matched categories
SumSeverity(keyword_matches, cats) ==
  IF cats = {} THEN 0
  ELSE LET c == CHOOSE x \in cats : TRUE
       IN  keyword_matches[c].severity + SumSeverity(keyword_matches, cats \ {c})

\* the message has no .lower(): AttributeError
KeywordsRaise(message) == message = None

_analyze_crisis_keywords(message) ==
  LET message_lower   == Lower(message)
      keyword_matches == KeywordMatches(message_lower)
      total_severity  == SumSeverity(keyword_matches, DOMAIN keyword_matches)
  IN  [ matches              |-> keyword_matches,
        total_severity       |-> Min(20, total_severity),
        high_risk_categories |->
          SelectSeq(CategoryOrder,
                    LAMBDA cat : /\ cat \in DOMAIN keyword_matches
                                 /\ cat \in {"suicide", "self_harm", "violence"}
                                 /\ keyword_matches[cat].count > 0) ]

(***************************************************************************)
(* _analyze_crisis_patterns                                                *)
(***************************************************************************)

\* the keys of the patterns dict, in insertion order
PatternOrder ==
  << "finality_statements", "goodbye_messages", "past_tense_future",
     "extreme_language", "isolation_expressions", "worthlessness",
     "burden_statements" >>

PatternsRaise(message) == message = None

_analyze_crisis_patterns(message) ==
  LET message_lower == Lower(message)
      patterns ==
        [ finality_statements   |-> CountIn(finality_words, message_lower),
          goodbye_messages      |-> CountIn(goodbye_words, message_lower),
          past_tense_future     |-> 0,
          extreme_language      |-> CountIn(extreme_words, message_lower),
          isolation_expressions |-> 0,
          worthlessness         |-> CountIn(worthless_words, message_lower),
          burden_statements     |-> 0 ]
      pattern_severity ==
          patterns.finality_statements * 3
        + patterns.goodbye_messages * 3
        + patterns.past_tense_future * 2
        + patterns.extreme_language * 1
        + patterns.isolation_expressions * 2
        + patterns.worthlessness * 2
        + patterns.burden_statements * 2
  IN  [ patterns           |-> patterns,
        severity           |-> Min(10, pattern_severity),
        high_risk_patterns |->
          SelectSeq(PatternOrder,
                    LAMBDA p : /\ patterns[p] > 0
                               /\ p \in {"finality_statements", "goodbye_messages",
                                         "burden_statements"}) ]

\* the two detectors on every message, computed once
keyword_table == [m \in Messages |-> _analyze_crisis_keywords(Text[m])]
pattern_table == [m \in Messages |-> _analyze_crisis_patterns(Text[m])]

(***************************************************************************)
(* _analyze_session_context                                                *)
(***************************************************************************)

\* the context dict as initialised at the top of the function
DefaultContext ==
  [ escalation_detected     |-> FALSE,
    repeated_crisis_themes  |-> 0,
    emotional_deterioration |-> FALSE,
    previous_interventions  |-> 0,
    session_duration        |-> 0 ]


\* msg.get("emotional_state", "")
EmotionalState(msg) ==
  IF "emotional_state" \in DOMAIN msg THEN msg.emotional_state ELSE ""

\* the crisis keywords of every category found in one stored user message
KeywordsInAllCategories(user_msg) ==
    CountIn(crisis_keywords.suicide, user_msg)
  + CountIn(crisis_keywords.self_harm, user_msg)
  + CountIn(crisis_keywords.hopelessness, user_msg)
  + CountIn(crisis_keywords.isolation, user_msg)
  + CountIn(crisis_keywords.substance_abuse, user_msg)
  + CountIn(crisis_keywords.violence, user_msg)
  + CountIn(crisis_keywords.psychosis, user_msg)

\* KeywordsInAllCategories of every message, computed once
indicator_table ==
  [m \in Messages |-> KeywordsInAllCategories(Lower(Text[m]))]

\* the keywords found in msg.get("user", "").lower()
UserIndicators(msg) ==
  IF "user" \in DOMAIN msg THEN indicator_table[msg.user]
  ELSE KeywordsInAllCategories(<< >>)

RECURSIVE CrisisIndicatorsCount(_)
\* crisis_indicators_count over the recent messages
CrisisIndicatorsCount(msgs) ==
  IF msgs = << >> THEN 0
  ELSE UserIndicators(Head(msgs)) + CrisisIndicatorsCount(Tail(msgs))

negative_emotions == {"sad", "anxious", "hopeless", "angry"}

\* _analyze_session_context counting the rows of the store's history as the
\* previous interventions
_analyze_session_context_rows(history_ok, history, crisis_data) ==
  IF ~history_ok THEN DefaultContext
  ELSE IF history = << >> THEN DefaultContext
  ELSE
    LET recent_messages == LastN(history, 3)
        crisis_indicators_count == CrisisIndicatorsCount(recent_messages)
        recent_negative ==
          Len(SelectSeq(LastN(history, 5),
                        LAMBDA msg : EmotionalState(msg) \in negative_emotions))
    IN  [ escalation_detected     |-> crisis_indicators_count > 2,
          repeated_crisis_themes  |-> crisis_indicators_count,
          emotional_deterioration |-> recent_negative >= 3,
          previous_interventions  |-> Len(history),
          session_duration        |-> 0 ]

\* history_ok = FALSE: get_session_history raised (caught inside the function).
\* crisis_data is self.session_crisis_history.get(session_id, []).
_analyze_session_context(history_ok, history, crisis_data) ==
  IF ~history_ok THEN DefaultContext
  ELSE IF history = << >> THEN DefaultContext
  ELSE
    LET recent_messages == LastN(history, 3)
        crisis_indicators_count == CrisisIndicatorsCount(recent_messages)
        recent_negative ==
          Len(SelectSeq(LastN(history, 5),
                        LAMBDA msg : EmotionalState(msg) \in negative_emotions))
    IN  [ escalation_detected     |-> crisis_indicators_count > 2,
          repeated_crisis_themes  |-> crisis_indicators_count,
          emotional_deterioration |-> recent_negative >= 3,
          previous_interventions  |-> Len(crisis_data),
          session_duration        |-> 0 ]

(***************************************************************************)
(* _calculate_crisis_level                                                 *)
(***************************************************************************)

\* TotalScore with the pattern score subtracted
TotalScore_minus(keyword_analysis, pattern_analysis, context_analysis) ==
  LET keyword_score == keyword_analysis.total_severity * 5
      pattern_score == pattern_analysis.severity * 6
      context_score ==
          (IF context_analysis.escalation_detected THEN 40 ELSE 0)
        + (IF context_analysis.emotional_deterioration THEN 20 ELSE 0)
        + (IF context_analysis.previous_interventions > 1 THEN 20 ELSE 0)
        + Len(keyword_analysis.high_risk_categories) * 30
  IN  keyword_score - pattern_score + context_score

\* total_score in twentieths: total_severity is doubled, so * 0.5 is * 5;
\* severity * 0.3 is * 6; one unit of context score is 20 and 1.5 is 30.
TotalScore(keyword_analysis, pattern_analysis, context_analysis) ==
  LET keyword_score == keyword_analysis.total_severity * 5
      pattern_score == pattern_analysis.severity * 6
      context_score ==
          (IF context_analysis.escalation_detected THEN 40 ELSE 0)
        + (IF context_analysis.emotional_deterioration THEN 20 ELSE 0)
        + (IF context_analysis.previous_interventions > 1 THEN 20 ELSE 0)
        + Len(keyword_analysis.high_risk_categories) * 30
  IN  keyword_score + pattern_score + context_score

\* _calculate_crisis_level with round() (half up) in place of int()
_calculate_crisis_level_round(keyword_analysis, pattern_analysis, context_analysis) ==
  Max(0, Min(10, (TotalScore(keyword_analysis, pattern_analysis, context_analysis) + 10) \div 20))

\* _calculate_crisis_level without the max/min clamp
_calculate_crisis_level_unclamped(keyword_analysis, pattern_analysis, context_analysis) ==
  TotalScore(keyword_analysis, pattern_analysis, context_analysis) \div 20

\* int() truncates; the score is never negative, so it is the floor
_calculate_crisis_level(keyword_analysis, pattern_analysis, context_analysis) ==
  Max(0, Min(10, TotalScore(keyword_analysis, pattern_analysis, context_analysis) \div 20))

(***************************************************************************)
(* _determine_crisis_type                                                  *)
(***************************************************************************)

\* _determine_crisis_type with an empty type when nothing matched
_determine_crisis_type_empty(keyword_analysis, pattern_analysis) ==
  LET keyword_matches == DOMAIN keyword_analysis.matches
  IN  CASE "suicide" \in keyword_matches         -> "suicide_risk"
        [] "self_harm" \in keyword_matches       -> "self_harm_risk"
        [] "violence" \in keyword_matches        -> "violence_risk"
        [] "psychosis" \in keyword_matches       -> "mental_health_emergency"
        [] "substance_abuse" \in keyword_matches -> "substance_abuse"
        [] "hopelessness" \in keyword_matches    -> "severe_depression"
        [] "isolation" \in keyword_matches       -> "social_crisis"
        [] OTHER                                 -> ""

\* _determine_crisis_type testing violence before self_harm
_determine_crisis_type_violence_first(keyword_analysis, pattern_analysis) ==
  LET keyword_matches == DOMAIN keyword_analysis.matches
      high_risk_patterns == Range(pattern_analysis.high_risk_patterns)
  IN  CASE "suicide" \in keyword_matches         -> "suicide_risk"
        [] "violence" \in keyword_matches        -> "violence_risk"
        [] "self_harm" \in keyword_matches       -> "self_harm_risk"
        [] "psychosis" \in keyword_matches       -> "mental_health_emergency"
        [] "substance_abuse" \in keyword_matches -> "substance_abuse"
        [] "hopelessness" \in keyword_matches    -> "severe_depression"
        [] "isolation" \in keyword_matches       -> "social_crisis"
        [] OTHER ->
             IF "finality_statements" \in high_risk_patterns THEN "suicide_risk"
             ELSE IF "goodbye_messages" \in high_risk_patterns THEN "suicide_risk"
             ELSE "emotional_distress"

_determine_crisis_type(keyword_analysis, pattern_analysis) ==
  LET keyword_matches == DOMAIN keyword_analysis.matches
      high_risk_patterns == Range(pattern_analysis.high_risk_patterns)
  IN  CASE "suicide" \in keyword_matches         -> "suicide_risk"
        [] "self_harm" \in keyword_matches       -> "self_harm_risk"
        [] "violence" \in keyword_matches        -> "violence_risk"
        [] "psychosis" \in keyword_matches       -> "mental_health_emergency"
        [] "substance_abuse" \in keyword_matches -> "substance_abuse"
        [] "hopelessness" \in keyword_matches    -> "severe_depression"
        [] "isolation" \in keyword_matches       -> "social_crisis"
        [] OTHER ->
             IF "finality_statements" \in high_risk_patterns THEN "suicide_risk"
             ELSE IF "goodbye_messages" \in high_risk_patterns THEN "suicide_risk"
             ELSE "emotional_distress"

(***************************************************************************)
(* _assess_urgency                                                         *)
(***************************************************************************)

\* _assess_urgency naming the top tier "critical"
_assess_urgency_critical(crisis_level, crisis_type, context_analysis) ==
  IF crisis_level >= 9 THEN "critical"
  ELSE IF /\ crisis_type \in {"suicide_risk", "violence_risk", "mental_health_emergency"}
          /\ crisis_level >= 7 THEN "immediate"
  ELSE IF /\ crisis_type \in {"suicide_risk", "violence_risk", "mental_health_emergency"}
          /\ crisis_level >= 5 THEN "urgent"
  ELSE IF context_analysis.escalation_detected /\ crisis_level >= 6 THEN "urgent"
  ELSE IF crisis_level >= 7 THEN "urgent"
  ELSE IF crisis_level >= 5 THEN "moderate"
  ELSE IF crisis_level >= 3 THEN "low"
  ELSE "none"

\* _assess_urgency without the context-based rule
_assess_urgency_no_context(crisis_level, crisis_type, context_analysis) ==
  IF crisis_level >= 9 THEN "immediate"
  ELSE IF /\ crisis_type \in {"suicide_risk", "violence_risk", "mental_health_emergency"}
          /\ crisis_level >= 7 THEN "immediate"
  ELSE IF /\ crisis_type \in {"suicide_risk", "violence_risk", "mental_health_emergency"}
          /\ crisis_level >= 5 THEN "urgent"
  ELSE IF crisis_level >= 7 THEN "urgent"
  ELSE IF crisis_level >= 5 THEN "moderate"
  ELSE IF crisis_level >= 3 THEN "low"
  ELSE "none"

_assess_urgency(crisis_level, crisis_type, context_analysis) ==
  IF crisis_level >= 9 THEN "immediate"
  ELSE IF /\ crisis_type \in {"suicide_risk", "violence_risk", "mental_health_emergency"}
          /\ crisis_level >= 7 THEN "immediate"
  ELSE IF /\ crisis_type \in {"suicide_risk", "violence_risk", "mental_health_emergency"}
          /\ crisis_level >= 5 THEN "urgent"
  ELSE IF context_analysis.escalation_detected /\ crisis_level >= 6 THEN "urgent"
  ELSE IF crisis_level >= 7 THEN "urgent"
  ELSE IF crisis_level >= 5 THEN "moderate"
  ELSE IF crisis_level >= 3 THEN "low"
  ELSE "none"

(***************************************************************************)
(* _update_session_crisis_tracking                                         *)
(***************************************************************************)

\* the number of events a session keeps
HistoryCap == 10

\* _update_session_crisis_tracking keeping one event too many ([-11:])
_update_session_crisis_tracking_off(history_map, session_id, crisis_level, crisis_type) ==
  LET before   == IF session_id \in DOMAIN history_map
                  THEN history_map[session_id] ELSE << >>
      appended == Append(before, [ crisis_level |-> crisis_level,
                                   crisis_type  |-> crisis_type ])
      kept     == LastN(appended, HistoryCap + 1)
  IN  [s \in DOMAIN history_map \cup {session_id} |->
         IF s = session_id THEN kept ELSE history_map[s]]

\* _update_session_crisis_tracking recording only events of level >= 5
_update_session_crisis_tracking_medium(history_map, session_id, crisis_level, crisis_type) ==
  LET before   == IF session_id \in DOMAIN history_map
                  THEN history_map[session_id] ELSE << >>
      appended == IF crisis_level >= 5
                  THEN Append(before, [ crisis_level |-> crisis_level,
                                        crisis_type  |-> crisis_type ])
                  ELSE before
      kept     == IF Len(appended) > HistoryCap
                  THEN LastN(appended, HistoryCap) ELSE appended
  IN  [s \in DOMAIN history_map \cup {session_id} |->
         IF s = session_id THEN kept ELSE history_map[s]]

\* the value of self.session_crisis_history after the call; the timestamp of
\* an entry is not modelled (no decision reads it)
_update_session_crisis_tracking(history_map, session_id, crisis_level, crisis_type) ==
  LET before   == IF session_id \in DOMAIN history_map
                  THEN history_map[session_id] ELSE << >>
      appended == Append(before, [ crisis_level |-> crisis_level,
                                   crisis_type  |-> crisis_type ])
      kept     == IF Len(appended) > HistoryCap
                  THEN LastN(appended, HistoryCap) ELSE appended
  IN  [s \in DOMAIN history_map \cup {session_id} |->
         IF s = session_id THEN kept ELSE history_map[s]]

(***************************************************************************)
(* _get_safety_recommendations                                             *)
(***************************************************************************)

_get_safety_recommendations(crisis_level, urgency) ==
  CASE urgency = "immediate" -> rec_immediate
    [] urgency = "urgent"    -> rec_urgent
    [] urgency = "moderate"  -> rec_moderate
    [] OTHER                 -> rec_other

(***************************************************************************)
(* The verdicts of analyze_safety                                          *)
(***************************************************************************)

\* SafetyAnalysis with requires_escalation set above, not at, the critical threshold
SafetyAnalysis_strict(keyword_analysis, pattern_analysis, context_analysis, crisis_level, crisis_type, urgency) ==
  [ crisis_level          |-> crisis_level,
    crisis_type           |-> crisis_type,
    urgency               |-> urgency,
    indicators            |-> [ keywords |-> keyword_analysis,
                                patterns |-> pattern_analysis,
                                context  |-> context_analysis ],
    recommendations       |-> _get_safety_recommendations(crisis_level, urgency),
    requires_intervention |-> crisis_level >= crisis_thresholds.high,
    requires_escalation   |-> crisis_level > crisis_thresholds.critical ]

\* the safety_analysis dict built on the normal path
SafetyAnalysis(keyword_analysis, pattern_analysis, context_analysis, crisis_level, crisis_type, urgency) ==
  [ crisis_level          |-> crisis_level,
    crisis_type           |-> crisis_type,
    urgency               |-> urgency,
    indicators            |-> [ keywords |-> keyword_analysis,
                                patterns |-> pattern_analysis,
                                context  |-> context_analysis ],
    recommendations       |-> _get_safety_recommendations(crisis_level, urgency),
    requires_intervention |-> crisis_level >= crisis_thresholds.high,
    requires_escalation   |-> crisis_level >= crisis_thresholds.critical ]

\* FallbackVerdict as a neutral, no-risk default
FallbackVerdict_neutral(error) ==
  [ crisis_level          |-> 0,
    crisis_type           |-> "emotional_distress",
    urgency               |-> "none",
    error                 |-> error,
    requires_intervention |-> FALSE,
    requires_escalation   |-> FALSE ]

\* the dict returned by the except branch; `error` is str(e)
FallbackVerdict(error) ==
  [ crisis_level          |-> 8,
    crisis_type           |-> "unknown",
    urgency               |-> "high",
    error                 |-> error,
    requires_intervention |-> TRUE,
    requires_escalation   |-> FALSE ]

\* ShouldLog with the "low" threshold in place of "medium"
ShouldLog_low(crisis_level) == crisis_level >= crisis_thresholds.low

\* "Log crisis event if significant"
ShouldLog(crisis_level) == crisis_level >= crisis_thresholds.medium

\* the crisis_data dict handed to db_manager.log_crisis_event
CrisisData(session_id, user_message, safety_analysis) ==
  [ session_id            |-> session_id,
    crisis_level          |-> safety_analysis.crisis_level,
    crisis_type           |-> safety_analysis.crisis_type,
    user_message          |-> user_message,
    intervention_response |-> "",
    escalated             |-> safety_analysis.requires_escalation,
    follow_up_needed      |-> safety_analysis.requires_intervention ]

(***************************************************************************)
(* check_escalation_needed                                                 *)
(***************************************************************************)

RECURSIVE SumLevels(_)
SumLevels(events) ==
  IF events = << >> THEN 0
  ELSE Head(events).crisis_level + SumLevels(Tail(events))

_get_escalation_recommendation(criteria) ==
  CASE criteria.immediate_danger     -> esc_immediate_danger
    [] criteria.sustained_high_risk  -> esc_sustained_high_risk
    [] criteria.increasing_severity  -> esc_increasing_severity
    [] criteria.failed_interventions -> esc_failed_interventions
    [] OTHER                         -> esc_default

\* the escalation_criteria dict without the sum(recent_levels) > 18 test
EscalationCriteria_nosum(session_history, current_crisis_level) ==
  LET recent_high_risk ==
        SelectSeq(LastN(session_history, 5),
                  LAMBDA event : event.crisis_level >= crisis_thresholds.high)
      recent_levels == LastN(session_history, 3)
  IN  [ sustained_high_risk  |-> Len(recent_high_risk) >= 3,
        increasing_severity  |->
          IF Len(session_history) >= 3
          THEN recent_levels[3].crisis_level > recent_levels[1].crisis_level
          ELSE FALSE,
        failed_interventions |-> Len(session_history) > 2,
        immediate_danger     |-> current_crisis_level >= 9 ]

\* the escalation_criteria dict
EscalationCriteria(session_history, current_crisis_level) ==
  LET recent_high_risk ==
        SelectSeq(LastN(session_history, 5),
                  LAMBDA event : event.crisis_level >= crisis_thresholds.high)
      recent_levels == LastN(session_history, 3)
  IN  [ sustained_high_risk  |-> Len(recent_high_risk) >= 3,
        increasing_severity  |->
          IF Len(session_history) >= 3
          THEN /\ recent_levels[3].crisis_level > recent_levels[1].crisis_level
               /\ SumLevels(recent_levels) > 18
          ELSE FALSE,
        failed_interventions |-> Len(session_history) > 2,
        immediate_danger     |-> current_crisis_level >= 9 ]

\* EscalationNeeded with `or` between sustained_high_risk and increasing_severity
EscalationNeeded_or(escalation_criteria, current_crisis_level) ==
  \/ escalation_criteria.immediate_danger
  \/ (escalation_criteria.sustained_high_risk
        \/ escalation_criteria.increasing_severity)
  \/ (escalation_criteria.failed_interventions /\ current_crisis_level >= 7)

\* EscalationNeeded without the immediate_danger entry of the any([...]) list
EscalationNeeded_soft(escalation_criteria, current_crisis_level) ==
  \/ (escalation_criteria.sustained_high_risk
        /\ escalation_criteria.increasing_severity)
  \/ (escalation_criteria.failed_interventions /\ current_crisis_level >= 7)

\* escalation_needed = any([...])
EscalationNeeded(escalation_criteria, current_crisis_level) ==
  \/ escalation_criteria.immediate_danger
  \/ (escalation_criteria.sustained_high_risk
        /\ escalation_criteria.increasing_severity)
  \/ (escalation_criteria.failed_interventions /\ current_crisis_level >= 7)

\* check_escalation_needed that never finds the session's history
check_escalation_needed_blank(history_map, session_id, current_crisis_level) ==
  LET session_history == << >>
      escalation_criteria == EscalationCriteria(session_history, current_crisis_level)
  IN  [ escalation_needed  |-> EscalationNeeded(escalation_criteria, current_crisis_level),
        criteria_met       |-> escalation_criteria,
        recommended_action |-> _get_escalation_recommendation(escalation_criteria),
        urgency            |-> IF escalation_criteria.immediate_danger
                               THEN "immediate" ELSE "urgent" ]

check_escalation_needed(history_map, session_id, current_crisis_level) ==
  LET session_history == IF session_id \in DOMAIN history_map
                         THEN history_map[session_id] ELSE << >>
      escalation_criteria == EscalationCriteria(session_history, current_crisis_level)
  IN  [ escalation_needed  |-> EscalationNeeded(escalation_criteria, current_crisis_level),
        criteria_met       |-> escalation_criteria,
        recommended_action |-> _get_escalation_recommendation(escalation_criteria),
        urgency            |-> IF escalation_criteria.immediate_danger
                               THEN "immediate" ELSE "urgent" ]

(***************************************************************************)
(* app/services/safety.py: the keyword risk filter of the chat endpoint    *)
(***************************************************************************)

\* RISK_AR: انتحار | أؤذي نفسي | أقتل نفسي | أذى | قتل | مميت | ميؤوس | لا أريد العيش | أموت | سأنهي حياتي
RISK_AR ==
  << <<1575,1606,1578,1581,1575,1585>>,
     <<1571,1572,1584,1610,32,1606,1601,1587,1610>>,
     <<1571,1602,1578,1604,32,1606,1601,1587,1610>>,
     <<1571,1584,1609>>,
     <<1602,1578,1604>>,
     <<1605,1605,1610,1578>>,
     <<1605,1610,1572,1608,1587>>,
     <<1604,1575,32,1571,1585,1610,1583,32,1575,1604,1593,1610,1588>>,
     <<1571,1605,1608,1578>>,
     <<1587,1571,1606,1607,1610,32,1581,1610,1575,1578,1610>> >>

\* RISK_EN: suicide | kill myself | end my life | self harm | hurt myself | i want to die | no reason to live | hopeless
RISK_EN ==
  << <<115,117,105,99,105,100,101>>,
     <<107,105,108,108,32,109,121,115,101,108,102>>,
     <<101,110,100,32,109,121,32,108,105,102,101>>,
     <<115,101,108,102,32,104,97,114,109>>,
     <<104,117,114,116,32,109,121,115,101,108,102>>,
     <<105,32,119,97,110,116,32,116,111,32,100,105,101>>,
     <<110,111,32,114,101,97,115,111,110,32,116,111,32,108,105,118,101>>,
     <<104,111,112,101,108,101,115,115>> >>

\* ""
part_empty == << >>

\* "I want to "
part_i_want_to == <<73,32,119,97,110,116,32,116,111,32>>

\* "أريد أن "
part_urid_an == <<1571,1585,1610,1583,32,1571,1606,32>>

\* "end my life"
part_end_my_life == <<101,110,100,32,109,121,32,108,105,102,101>>

\* "END MY LIFE"
part_END_MY_LIFE == <<69,78,68,32,77,89,32,76,73,70,69>>

\* "suicide"
part_suicide == <<115,117,105,99,105,100,101>>

\* "Suicide"
part_Suicide == <<83,117,105,99,105,100,101>>

\* "أنهي حياتي"
part_anhi_hayati == <<1571,1606,1607,1610,32,1581,1610,1575,1578,1610>>

\* "سأنهي حياتي"
part_sa_anhi_hayati == <<1587,1571,1606,1607,1610,32,1581,1610,1575,1578,1610>>

\* "انتحار"
part_intihar == <<1575,1606,1578,1581,1575,1585>>

\* "hello"
part_hello == <<104,101,108,108,111>>

\* "مرحبا"
part_marhaban == <<1605,1585,1581,1576,1575>>

\* "hopeless"
part_hopeless == <<104,111,112,101,108,101,115,115>>

\* "أموت"
part_amut == <<1571,1605,1608,1578>>

\* " today"
part_today == <<32,116,111,100,97,121>>

\* risk_detect: text is a str, for which (text or "") is text itself
risk_detect(text, lang) ==
  LET t    == Lower(text)
      keys == IF lang = "ar" THEN RISK_AR ELSE RISK_EN
  IN  \E i \in 1..Len(keys) : Contains(t, keys[i])

(***************************************************************************)
(* Bounds and input sets                                                   *)
(***************************************************************************)

\* analyze_safety calls in one behaviour of Spec
MaxCalls == 2
\* analyze_safety calls in one behaviour of SpecLong (more than HistoryCap)
MaxLongCalls == 12
\* the largest current_crisis_level handed to check_escalation_needed
MaxLevelArg == 10

Sessions == {"s1", "s2"}
\* analyze_safety coroutines that may be in flight at once
Calls == {1, 2}
\* which subsystem is made to raise during a call (Scenario 5 of the spec)
Faults == {"none", "keywords", "patterns", "aggregation"}
\* the messages of Spec: levels 0, 5, 7 and 9 with no context
MainMessages == {"m_greeting", "m_selfharm", "m_hopeless", "m_killhit"}
\* analyze_safety calls in one behaviour of SpecEsc
MaxEscCalls == 3
\* analyze_safety calls in one behaviour of SpecScore
MaxScoreCalls == 3
\* analyze_safety calls in one behaviour of SpecSession
MaxSessionCalls == 2
\* analyze_safety calls in one behaviour of SpecWindow (more than the 5
\* events check_escalation_needed looks back on)
MaxWindowCalls == 6
\* messages of one session answered by generate_response
MaxTurns == 2
\* end_session coroutines suspended at save_session at one time
MaxEnding == 2
MaxSent == 4
\* the messages of SpecEsc
EscMessages == {"m_greeting", "m_hopeless", "m_killself", "m_killhit"}
\* the messages of the long runs: levels 0 and 7 with no context
LongMessages == {"m_greeting", "m_killself"}

\* contents of the store's session history (rows of get_session_history)
history_empty == << >>
history_calm == << [user |-> "m_greeting", emotional_state |-> "neutral"] >>
history_crisis ==
  << [user |-> "m_killself", emotional_state |-> "sad"],
     [user |-> "m_wantdie",  emotional_state |-> "hopeless"],
     [user |-> "m_greeting", emotional_state |-> "anxious"] >>
\* rows without a "user" column
history_sad ==
  << [emotional_state |-> "sad"], [emotional_state |-> "sad"],
     [emotional_state |-> "angry"] >>
StoreHistories == {history_empty, history_calm, history_crisis, history_sad}

\* the texts handed to risk_detect: an opening, a phrase and an ending
RiskOpenings == {part_empty, part_i_want_to, part_urid_an}
RiskPhrases ==
  { part_end_my_life, part_END_MY_LIFE, part_suicide, part_Suicide,
    part_anhi_hayati, part_sa_anhi_hayati, part_intihar, part_hello,
    part_marhaban, part_hopeless, part_amut }
RiskEndings == {part_empty, part_today}
RiskTexts ==
  {o \o ph \o e : o \in RiskOpenings, ph \in RiskPhrases, e \in RiskEndings}
Langs == {"ar", "en"}

(***************************************************************************)
(* State                                                                   *)
(***************************************************************************)

VARIABLES
  session_crisis_history, \* self.session_crisis_history: session_id -> events
  store_history,          \* the store: rows of get_session_history, per session
  crisis_event_log,       \* the store: rows written by log_crisis_event
  pc,                     \* where each analyze_safety coroutine stands
  frame,                  \* the locals of each analyze_safety coroutine
  result,                 \* the last return of analyze_safety, with its call
  assessment,             \* what check_escalation_needed returned last, with the
                          \* session's events and returned verdicts at that time
  ncalls,                 \* analyze_safety calls started so far
  recorded,               \* history: every event handed to the tracking, per session
  returned,               \* history: every verdict analyze_safety returned, per session
  active_sessions,        \* TherapyService.active_sessions: session_id -> session
  saved_sessions,         \* the store: the summary save_session wrote, per session
  ending,                 \* the end_session coroutines suspended at save_session,
                          \* each with its session_id and the summary it computed
  risk_call,              \* the last call of risk_detect, with what it returned
  unit_call,              \* the last direct call of a scoring function, with its result
  ready,                  \* LLMService.ready
  llm_call,               \* the last call of analyze_crisis_indicators, with its result
  turn_call,              \* the last call of handle_turn, with what it invoked and returned
  ws_open,                \* ws_handler has not returned
  ws_history,             \* ws_handler's history list
  showed_disclaimer,      \* ws_handler's flag of the same name
  ws_sent,                \* the frames ws_handler handed to send_text, oldest first
  ws_pc,                  \* the await ws_handler is suspended at
  ws_frame,               \* the locals of the turn ws_handler is in
  ws_raised               \* history: the positions in ws_sent of the frames whose
                          \* send_text raised

\* the state of TherapyService and of the app's risk filter
therapy_vars == << active_sessions, saved_sessions, ending >>
app_vars == << risk_call >>
\* the callers of single functions
call_vars == << unit_call >>
\* everything SafetyService and TherapyService never touch
\* the state of LLMService, of handle_turn's callers and of one WebSocket
\* connection
llm_vars == << ready, llm_call >>
chat_vars == << turn_call >>
ws_vars == << ws_open, ws_history, showed_disclaimer, ws_sent, ws_pc, ws_frame, ws_raised >>
other_vars == << call_vars, llm_vars, chat_vars, ws_vars >>

vars == << session_crisis_history, store_history, crisis_event_log, pc, frame,
           result, assessment, ncalls, recorded, returned, therapy_vars, app_vars, other_vars >>

\* ws_handler between two turns
NoTurn ==
  [ kind |-> "none", user_text |-> << >>, lang |-> "", want_voice |-> FALSE,
    out |-> << >> ]

NoFrame ==
  [ session_id |-> "", message |-> "", fault |-> "none",
    keyword_analysis |-> << >>, pattern_analysis |-> << >>,
    history_ok |-> TRUE, safety_analysis |-> << >> ]

\* SafetyService.__init__: no session is tracked; the store holds what
\* earlier conversations left in it
Init ==
  /\ session_crisis_history = << >>
  /\ \E h \in StoreHistories : store_history = [s \in Sessions |-> h]
  /\ crisis_event_log = << >>
  /\ pc = [c \in Calls |-> "idle"]
  /\ frame = [c \in Calls |-> NoFrame]
  /\ result = << >>
  /\ assessment = << >>
  /\ ncalls = 0
  /\ recorded = [s \in Sessions |-> << >>]
  /\ returned = [s \in Sessions |-> << >>]
  /\ active_sessions = << >>
  /\ saved_sessions = << >>
  /\ ending = << >>
  /\ risk_call = << >>
  /\ unit_call = << >>
  /\ ready = FALSE
  /\ llm_call = << >>
  /\ turn_call = << >>
  /\ ws_open = TRUE
  /\ ws_history = << >>
  /\ showed_disclaimer = FALSE
  /\ ws_sent = << >>
  /\ ws_pc = "receive"
  /\ ws_frame = NoTurn
  /\ ws_raised = {}

(***************************************************************************)
(* analyze_safety                                                          *)
(***************************************************************************)

\* the coroutine returns `verdict` to its caller; `logged` tells what became
\* of the log_crisis_event call ("skipped", "ok" or "failed"); a new call
\* clears `result` (the caller has taken the previous verdict)
Return(c, f, verdict, logged) ==
  /\ pc' = [pc EXCEPT ![c] = "done"]
  /\ frame' = [frame EXCEPT ![c] = NoFrame]
  /\ result' = << [ session_id |-> f.session_id,
                     message    |-> f.message,
                     fault      |-> f.fault,
                     history_ok |-> f.history_ok,
                     logged     |-> logged,
                     verdict    |-> verdict ] >>
  /\ returned' = [returned EXCEPT ![f.session_id] =
                     Append(@, [ crisis_level |-> verdict.crisis_level,
                                 fallback     |-> "error" \in DOMAIN verdict,
                                 logged       |-> logged ])]

\* analyze_safety up to its first suspension: the two detectors run, then
\* _analyze_session_context awaits db_manager.get_session_history
analyze_safety_begin(c, session_id, message, fault) ==
  /\ pc[c] \in {"idle", "done"}
  /\ ncalls' = ncalls + 1
  /\ LET f0 == [NoFrame EXCEPT !.session_id = session_id,
                                !.message = message, !.fault = fault]
     IN  IF KeywordsRaise(message) \/ fault = "keywords"
         THEN Return(c, f0, FallbackVerdict("keywords"), "skipped")
         ELSE IF PatternsRaise(message) \/ fault = "patterns"
         THEN Return(c, f0, FallbackVerdict("patterns"), "skipped")
         ELSE /\ pc' = [pc EXCEPT ![c] = "await_history"]
              /\ frame' = [frame EXCEPT ![c] =
                   [f0 EXCEPT
                      !.keyword_analysis = << keyword_table[message] >>,
                      !.pattern_analysis = << pattern_table[message] >>]]
              /\ result' = << >>
              /\ UNCHANGED returned
  /\ assessment' = << >>
  /\ UNCHANGED << session_crisis_history, store_history, crisis_event_log, recorded,
                  therapy_vars, app_vars, other_vars >>

\* get_session_history completes (history_ok) or raises: the rest of the
\* context analysis, the aggregation, the classification, the urgency and the
\* tracking update run without suspension, up to the await of
\* db_manager.log_crisis_event or to the return
analyze_safety_history(c, history_ok) ==
  /\ pc[c] = "await_history"
  /\ LET f  == [frame[c] EXCEPT !.history_ok = history_ok]
         keyword_analysis == f.keyword_analysis[1]
         pattern_analysis == f.pattern_analysis[1]
         crisis_data ==
           IF f.session_id \in DOMAIN session_crisis_history
           THEN session_crisis_history[f.session_id] ELSE << >>
         context_analysis ==
           _analyze_session_context(history_ok, store_history[f.session_id], crisis_data)
         crisis_level ==
           _calculate_crisis_level(keyword_analysis, pattern_analysis, context_analysis)
         crisis_type == _determine_crisis_type(keyword_analysis, pattern_analysis)
         urgency == _assess_urgency(crisis_level, crisis_type, context_analysis)
         safety_analysis ==
           SafetyAnalysis(keyword_analysis, pattern_analysis, context_analysis,
                          crisis_level, crisis_type, urgency)
     IN  IF f.fault = "aggregation"
         THEN /\ Return(c, f, FallbackVerdict("aggregation"), "skipped")
              /\ UNCHANGED << session_crisis_history, recorded >>
         ELSE /\ session_crisis_history' =
                   _update_session_crisis_tracking(session_crisis_history,
                                                   f.session_id, crisis_level, crisis_type)
              /\ recorded' = [recorded EXCEPT ![f.session_id] =
                                 Append(@, [ crisis_level |-> crisis_level,
                                             crisis_type  |-> crisis_type ])]
              /\ IF ShouldLog(crisis_level)
                 THEN /\ pc' = [pc EXCEPT ![c] = "await_log"]
                      /\ frame' = [frame EXCEPT ![c] =
                                     [f EXCEPT !.safety_analysis = << safety_analysis >>]]
                      /\ UNCHANGED << result, returned >>
                 ELSE Return(c, f, safety_analysis, "skipped")
  /\ UNCHANGED << store_history, crisis_event_log, assessment, ncalls,
                  therapy_vars, app_vars, other_vars >>

\* db_manager.log_crisis_event completes (log_ok) or raises; a raise reaches
\* the except branch of analyze_safety
analyze_safety_logged(c, log_ok) ==
  /\ pc[c] = "await_log"
  /\ LET f == frame[c]
         safety_analysis == f.safety_analysis[1]
     IN  IF log_ok
         THEN /\ crisis_event_log' =
                   Append(crisis_event_log,
                          CrisisData(f.session_id, f.message, safety_analysis))
              /\ Return(c, f, safety_analysis, "ok")
         ELSE /\ UNCHANGED crisis_event_log
              /\ Return(c, f, FallbackVerdict("log_crisis_event"), "failed")
  /\ UNCHANGED << session_crisis_history, store_history, assessment, ncalls,
                  recorded, therapy_vars, app_vars, other_vars >>

\* check_escalation_needed has no suspension point: one step, which a caller
\* may take at any time, also while calls of analyze_safety are suspended
CheckEscalation(session_id, current_crisis_level) ==
  /\ assessment' =
       << [ session_id           |-> session_id,
            current_crisis_level |-> current_crisis_level,
            history              |-> IF session_id \in DOMAIN session_crisis_history
                                     THEN session_crisis_history[session_id] ELSE << >>,
            verdicts             |-> returned[session_id],
            returned             |-> check_escalation_needed(session_crisis_history,
                                                             session_id,
                                                             current_crisis_level) ] >>
  /\ UNCHANGED << session_crisis_history, store_history, crisis_event_log, pc,
                  frame, result, ncalls, recorded, returned, therapy_vars, app_vars, other_vars >>

\* the state of SafetyService, of its store tables and of its callers
safety_vars ==
  << session_crisis_history, store_history, crisis_event_log, pc, frame, result,
     assessment, ncalls, recorded, returned >>

(***************************************************************************)
(* TherapyService: the owner of the sessions                               *)
(***************************************************************************)

\* TherapyService._update_session_context, as far as the session table goes:
\* the session is created on its first message and counts its messages (the
\* topics, emotions and cultural context of a session are not modelled)
_update_session_context(sessions, session_id) ==
  [s \in DOMAIN sessions \cup {session_id} |->
     IF s = session_id
     THEN [ message_count |-> IF s \in DOMAIN sessions
                              THEN sessions[s].message_count + 1 ELSE 1 ]
     ELSE sessions[s]]

\* TherapyService.get_session_summary
get_session_summary(sessions, session_id) ==
  IF session_id \notin DOMAIN sessions
  THEN [ error |-> "Session not found" ]
  ELSE [ session_id    |-> session_id,
         message_count |-> sessions[session_id].message_count ]

\* TherapyService.generate_response: the session table is updated first; the
\* reply itself (language model, techniques, interaction log) touches neither
\* the session table nor SafetyService
generate_response(session_id) ==
  /\ session_id \in DOMAIN active_sessions
       => active_sessions[session_id].message_count < MaxTurns
  /\ active_sessions' = _update_session_context(active_sessions, session_id)
  /\ UNCHANGED << safety_vars, saved_sessions, ending, app_vars, other_vars >>

\* TherapyService.end_session up to its suspension point: the summary is
\* computed from the session table as it is at the call, then the coroutine
\* awaits db_manager.save_session with that summary
end_session_call(session_id) ==
  /\ Len(ending) < MaxEnding
  /\ ending' = Append(ending,
                      [ session_id |-> session_id,
                        summary    |-> get_session_summary(active_sessions, session_id) ])
  /\ UNCHANGED << safety_vars, active_sessions, saved_sessions, app_vars, other_vars >>

\* the sequence seq without its i-th element
RemoveAt(seq, i) == SubSeq(seq, 1, i - 1) \o SubSeq(seq, i + 1, Len(seq))

\* TherapyService.end_session from the return of save_session on: the store
\* holds the summary computed before the await, and the session is deleted
\* from active_sessions if it is there now; a raise of save_session
\* (save_ok = FALSE) reaches the except branch before the deletion.  Nothing
\* here reaches SafetyService.session_crisis_history.
end_session_return(i, save_ok) ==
  /\ i \in 1..Len(ending)
  /\ LET session_id == ending[i].session_id
         summary    == ending[i].summary
     IN  IF save_ok
         THEN /\ saved_sessions' =
                   [s \in DOMAIN saved_sessions \cup {session_id} |->
                      IF s = session_id THEN summary ELSE saved_sessions[s]]
              /\ active_sessions' =
                   [s \in DOMAIN active_sessions \ {session_id} |-> active_sessions[s]]
         ELSE UNCHANGED << active_sessions, saved_sessions >>
  /\ ending' = RemoveAt(ending, i)
  /\ UNCHANGED << safety_vars, app_vars, other_vars >>

(***************************************************************************)
(* The chat endpoint's risk filter                                         *)
(***************************************************************************)

\* one call of risk_detect (a function without state of its own)
RiskDetect(text, lang) ==
  /\ risk_call' = << [ text     |-> text,
                       lang     |-> lang,
                       returned |-> risk_detect(text, lang) ] >>
  /\ UNCHANGED << safety_vars, therapy_vars, other_vars >>

(***************************************************************************)
(* LLMService (src/services/llm_service.py): crisis analysis               *)
(***************************************************************************)

\* the replies of the model used as inputs: "7", "Crisis level: 12/10",
\* "HIGH risk", "Urgent", "moderate", "low", "no risk at all", ""
reply_7 == <<55>>
reply_12_of_10 == <<67,114,105,115,105,115,32,108,101,118,101,108,58,32,49,50,47,49,48>>
reply_HIGH == <<72,73,71,72,32,114,105,115,107>>
reply_Urgent == <<85,114,103,101,110,116>>
reply_moderate == <<109,111,100,101,114,97,116,101>>
reply_low == <<108,111,119>>
reply_none == <<110,111,32,114,105,115,107,32,97,116,32,97,108,108>>
reply_empty == << >>
\* digits of other scripts: \d matches them and int() reads them
reply_ar_7 == <<108,101,118,101,108,32,1639,32,110,111,119>>
reply_mixed_34 == <<1635,52>>

\* the replies by name
Reply ==
  [ r_7 |-> reply_7, r_12_of_10 |-> reply_12_of_10, r_HIGH |-> reply_HIGH,
    r_Urgent |-> reply_Urgent, r_moderate |-> reply_moderate, r_low |-> reply_low,
    r_none |-> reply_none, r_empty |-> reply_empty,
    r_ar_7 |-> reply_ar_7, r_mixed_34 |-> reply_mixed_34 ]

\* the zero of every run of ten decimal digits (category Nd): the digit of
\* value k is k code points after its zero
DigitZeros ==
  { 48, 1632, 1776, 1984, 2406, 2534, 2662, 2790, 2918, 3046, 3174, 3302,
    3430, 3558, 3664, 3792, 3872, 4160, 4240, 6112, 6160, 6470, 6608, 6784,
    6800, 6992, 7088, 7232, 7248, 42528, 43216, 43264, 43472, 43504, 43600, 44016,
    65296, 66720, 68912, 69734, 69872, 69942, 70096, 70384, 70736, 70864, 71248, 71360,
    71472, 71904, 72016, 72784, 73040, 73120, 92768, 92864, 93008, 120782, 120792, 120802,
    120812, 120822, 123200, 123632, 125264, 130032 }

\* what \d matches in a str pattern
IsDigit(ch) == \E z \in DigitZeros : ch >= z /\ ch <= z + 9

\* the value int() gives the digit
DigitValue(ch) == ch - (CHOOSE z \in DigitZeros : ch >= z /\ ch <= z + 9)

\* the index of the first digit of s from i on, 0 when there is none
RECURSIVE FirstDigit(_, _)
FirstDigit(s, i) ==
  IF i > Len(s) THEN 0
  ELSE IF IsDigit(s[i]) THEN i
  ELSE FirstDigit(s, i + 1)

\* int() of the run of digits of s that starts at i, acc the value so far
RECURSIVE DigitRun(_, _, _)
DigitRun(s, i, acc) ==
  IF i > Len(s) \/ ~IsDigit(s[i]) THEN acc
  ELSE DigitRun(s, i + 1, acc * 10 + DigitValue(s[i]))

\* the length of the run of digits of s that starts at i
RECURSIVE RunLength(_, _)
RunLength(s, i) ==
  IF i > Len(s) \/ ~IsDigit(s[i]) THEN 0 ELSE 1 + RunLength(s, i + 1)

word_high == <<104,105,103,104>>
word_urgent == <<117,114,103,101,110,116>>
word_medium == <<109,101,100,105,117,109>>
word_moderate == <<109,111,100,101,114,97,116,101>>
word_low == <<108,111,119>>

\* re.findall(r'\d+', analysis)[0], clamped; else the keyword fallback, also
\* when int() raises (ValueError on a run of more than 4300 digits, which
\* the bare except swallows)
_extract_crisis_level(analysis) ==
  LET first == FirstDigit(analysis, 1)
      lower == Lower(analysis)
  IN  IF first > 0 /\ RunLength(analysis, first) <= 4300
      THEN Max(0, Min(10, DigitRun(analysis, first, 0)))
      ELSE IF Contains(lower, word_high) \/ Contains(lower, word_urgent) THEN 8
      ELSE IF Contains(lower, word_medium) \/ Contains(lower, word_moderate) THEN 5
      ELSE IF Contains(lower, word_low) THEN 2
      ELSE 0

\* the crisis_keywords dict of _extract_crisis_indicators, in insertion order
IndicatorOrder == << "suicide", "self_harm", "hopelessness", "substance_abuse" >>

indicator_keywords ==
  [ suicide         |-> << <<1575,1606,1578,1581,1575,1585>>,
      <<1571,1602,1578,1604,32,1606,1601,1587,1610>>,
      <<1604,1575,32,1571,1585,1610,1583,32,1575,1604,1593,1610,1588>>,
      <<1571,1605,1608,1578>> >>,
    self_harm       |-> << <<1571,1572,1584,1610,32,1606,1601,1587,1610>>,
      <<1571,1580,1585,1581,32,1606,1601,1587,1610>>,
      <<1571,1590,1585,1576,32,1606,1601,1587,1610>> >>,
    hopelessness    |-> << <<1604,1575,32,1571,1605,1604>>,
      <<1605,1610,1572,1608,1587>>,
      <<1575,1606,1578,1607,1610,1578>>,
      <<1601,1602,1583,1578,32,1575,1604,1571,1605,1604>> >>,
    substance_abuse |-> << <<1605,1582,1583,1585,1575,1578>>,
      <<1588,1585,1576>>,
      <<1603,1581,1608,1604>>,
      <<1573,1583,1605,1575,1606>> >> ]

_extract_crisis_indicators(text) ==
  LET text_lower == Lower(text)
  IN  SelectSeq(IndicatorOrder,
                LAMBDA category :
                  \E k \in 1..Len(indicator_keywords[category]) :
                    Contains(text_lower, indicator_keywords[category][k]))

\* the crisis_keywords list of _fallback_crisis_detection
fallback_keywords ==
  << <<1575,1606,1578,1581,1575,1585>>,
      <<1571,1602,1578,1604,32,1606,1601,1587,1610>>,
      <<1604,1575,32,1571,1585,1610,1583,32,1575,1604,1593,1610,1588>>,
      <<1571,1605,1608,1578>>,
      <<1571,1572,1584,1610,32,1606,1601,1587,1610>>,
      <<1604,1575,32,1571,1605,1604>>,
      <<1575,1606,1578,1607,1610,1578>>,
      <<1601,1602,1583,1578,32,1575,1604,1571,1605,1604>> >>

_fallback_crisis_detection(text) ==
  LET text_lower     == Lower(text)
      found_keywords == SelectSeq(fallback_keywords,
                                  LAMBDA kw : Contains(text_lower, kw))
  IN  [ crisis_level |-> Min(9, Len(found_keywords) * 3),
        indicators   |-> found_keywords,
        analysis     |-> "Keyword-based detection" ]

\* what analyze_crisis_indicators returns; reply names the text _call_ollama
\* returned, or is "raised" when it raised
AnalyzeCrisisIndicators(is_ready, text, reply) ==
  IF ~is_ready THEN [ crisis_level |-> 0, indicators |-> << >> ]
  ELSE IF reply = "raised" THEN _fallback_crisis_detection(text)
  ELSE [ crisis_level |-> _extract_crisis_level(Reply[reply]),
         indicators   |-> _extract_crisis_indicators(text),
         analysis     |-> Reply[reply] ]

\* initialize(): ready is set once the connection tests passed; a failure is
\* re-raised with ready as it was
initialize(ok) ==
  /\ ready' = IF ok THEN TRUE ELSE ready
  /\ UNCHANGED << llm_call, safety_vars, therapy_vars, app_vars, call_vars, chat_vars, ws_vars >>

\* cleanup(): ready is cleared unless closing the client raised
cleanup(ok) ==
  /\ ready' = IF ok THEN FALSE ELSE ready
  /\ UNCHANGED << llm_call, safety_vars, therapy_vars, app_vars, call_vars, chat_vars, ws_vars >>

\* one call of analyze_crisis_indicators; _call_ollama runs only when the
\* service is ready
analyze_crisis_indicators(m, reply) ==
  /\ llm_call' = << [ text     |-> m,
                      ready    |-> ready,
                      reply    |-> IF ready THEN reply ELSE "not called",
                      returned |-> AnalyzeCrisisIndicators(ready, Text[m], reply) ] >>
  /\ UNCHANGED << ready, safety_vars, therapy_vars, app_vars, call_vars, chat_vars, ws_vars >>

(***************************************************************************)
(* The chat turn (src/app/services/conversation.py and what it calls)      *)
(***************************************************************************)

\* the user texts of the turns, by name
\* t_empty: ""
text_t_empty == << >>
\* t_hello: "hello there"
text_t_hello == <<104,101,108,108,111,32,116,104,101,114,101>>
\* t_marhaban: an Arabic greeting
text_t_marhaban == <<1605,1585,1581,1576,1575>>
\* t_suicide_en: "I think about Suicide"
text_t_suicide_en == <<73,32,116,104,105,110,107,32,97,98,111,117,116,32,83,117,105,99,105,100,101>>
\* t_intihar: Arabic, with the key of RISK_AR for suicide
text_t_intihar == <<1571,1601,1603,1585,32,1601,1610,32,1575,1604,1575,1606,1578,1581,1575,1585>>
\* t_mixed_en_key: an Arabic greeting, then "I want to end my life"
text_t_mixed_en_key == <<1605,1585,1581,1576,1575,32,73,32,119,97,110,116,32,116,111,32,101,110,100,32,109,121,32,108,105,102,101>>
\* t_mixed_ar_key: "hello", then the Arabic text above
text_t_mixed_ar_key == <<104,101,108,108,111,32,1571,1601,1603,1585,32,1601,1610,32,1575,1604,1575,1606,1578,1581,1575,1585>>
\* t_sad_dua: Arabic: sad, asks for a prayer
text_t_sad_dua == <<1571,1606,1575,32,1581,1586,1610,1606,32,1608,1571,1581,1578,1575,1580,32,1583,1593,1575,1569>>
\* t_anxious_en: "I am anxious and worried"
text_t_anxious_en == <<73,32,97,109,32,97,110,120,105,111,117,115,32,97,110,100,32,119,111,114,114,105,101,100>>
\* t_spaces: three spaces
text_t_spaces == <<32,32,32>>
\* t_padded: "  I am anxious and worried " with a line feed at the end
text_t_padded == <<32,32,73,32,97,109,32,97,110,120,105,111,117,115,32,97,110,100,32,119,111,114,114,105,101,100,32,10>>

TurnText ==
  [ t_spaces |-> text_t_spaces,
    t_padded |-> text_t_padded,
    t_empty |-> text_t_empty,
    t_hello |-> text_t_hello,
    t_marhaban |-> text_t_marhaban,
    t_suicide_en |-> text_t_suicide_en,
    t_intihar |-> text_t_intihar,
    t_mixed_en_key |-> text_t_mixed_en_key,
    t_mixed_ar_key |-> text_t_mixed_ar_key,
    t_sad_dua |-> text_t_sad_dua,
    t_anxious_en |-> text_t_anxious_en ]

\* the completions of the chat model, by name
\* b_more_en: "Tell me more about that."
text_b_more_en == <<84,101,108,108,32,109,101,32,109,111,114,101,32,97,98,111,117,116,32,116,104,97,116,46>>
\* b_more_ar: the same in Arabic
text_b_more_ar == <<1582,1576,1585,1606,1610,32,1571,1603,1579,1585,32,1593,1606,32,1584,1604,1603,46>>
\* b_hamd: an Arabic reply that holds a phrase of CULTURAL_POSITIVE
text_b_hamd == <<1575,1604,1581,1605,1583,32,1604,1604,1607,32,1593,1604,1609,32,1603,1604,32,1581,1575,1604,46,32,1603,1610,1601,32,1578,1588,1593,1585,32,1575,1604,1570,1606,1567>>
\* b_empty: an empty completion
text_b_empty == << >>
\* b_padded: "  Tell me more about that. \n", with an ideographic space after it
text_b_padded == <<32,32,84,101,108,108,32,109,101,32,109,111,114,101,32,97,98,111,117,116,32,116,104,97,116,46,32,10,12288>>
\* b_blank: " \n "
text_b_blank == <<32,10,32>>

BotText ==
  [ b_more_en |-> text_b_more_en,
    b_more_ar |-> text_b_more_ar,
    b_hamd |-> text_b_hamd,
    b_empty |-> text_b_empty,
    b_padded |-> text_b_padded,
    b_blank |-> text_b_blank ]

\* any(U+0600 <= ch <= U+06FF for ch in text)
contains_arabic(text) == \E i \in 1..Len(text) : text[i] \in 1536..1791

detect_lang(text) == IF contains_arabic(text) THEN "ar" ELSE "en"

\* the labels of EMO_AR and EMO_EN, in insertion order
EmotionOrder == << "sad", "anxious", "angry", "stressed", "hopeful" >>

EMO_AR ==
  [sad      |-> << <<1581,1586,1610,1606>>,
                  <<1605,1603,1578,1574,1576>>,
                  <<1610,1575,1574,1587>>,
                  <<1605,1581,1576,1591>>,
                  <<1576,1575,1574,1587>> >>,
   anxious  |-> << <<1602,1604,1602>>,
                  <<1605,1578,1608,1578,1585>>,
                  <<1582,1575,1574,1601>>,
                  <<1605,1607,1605,1608,1605>>,
                  <<1605,1590,1591,1585,1576>> >>,
   angry    |-> << <<1594,1575,1590,1576>>,
                  <<1605,1593,1589,1576>>,
                  <<1586,1593,1604,1575,1606>>,
                  <<1605,1587,1578,1575,1569>> >>,
   stressed |-> << <<1605,1590,1594,1608,1591>>,
                  <<1605,1585,1607,1602>>,
                  <<1605,1606,1607,1603>>,
                  <<1590,1594,1591>> >>,
   hopeful  |-> << <<1605,1578,1601,1575,1574,1604>>,
                  <<1571,1605,1604>>,
                  <<1608,1575,1579,1602>>,
                  <<1605,1576,1587,1608,1591>>,
                  <<1587,1593,1610,1583>> >> ]

EMO_EN ==
  [sad      |-> << <<115,97,100>>,
                  <<100,101,112,114,101,115,115,101,100>>,
                  <<100,111,119,110>>,
                  <<104,111,112,101,108,101,115,115>>,
                  <<109,105,115,101,114,97,98,108,101>> >>,
   anxious  |-> << <<97,110,120,105,111,117,115>>,
                  <<119,111,114,114,105,101,100>>,
                  <<110,101,114,118,111,117,115>>,
                  <<112,97,110,105,99>>,
                  <<111,110,32,101,100,103,101>> >>,
   angry    |-> << <<97,110,103,114,121>>,
                  <<109,97,100>>,
                  <<102,117,114,105,111,117,115>>,
                  <<105,114,114,105,116,97,116,101,100>> >>,
   stressed |-> << <<115,116,114,101,115,115,101,100>>,
                  <<111,118,101,114,119,104,101,108,109,101,100>>,
                  <<98,117,114,110,101,100,32,111,117,116>>,
                  <<112,114,101,115,115,117,114,101>> >>,
   hopeful  |-> << <<104,111,112,101,102,117,108>>,
                  <<111,112,116,105,109,105,115,116,105,99>>,
                  <<99,111,110,102,105,100,101,110,116>>,
                  <<103,114,97,116,101,102,117,108>>,
                  <<104,97,112,112,121>> >> ]

\* the first label with the most words in the text, None when no word occurs
emotion_hint(text, lang) ==
  LET t       == Lower(text)
      lex     == IF lang = "ar" THEN EMO_AR ELSE EMO_EN
      hits(l) == CountIn(lex[l], t)
      best    == SelectSeq(EmotionOrder,
                           LAMBDA l : /\ hits(l) > 0
                                      /\ \A k \in Range(EmotionOrder) : hits(k) <= hits(l))
  IN  IF best = << >> THEN None ELSE best[1]

CULTURAL_POSITIVE ==
  << <<1573,1606,32,1588,1575,1569,32,1575,1604,1604,1607>>,
     <<1576,1573,1584,1606,32,1575,1604,1604,1607>>,
     <<1575,1604,1581,1605,1583,32,1604,1604,1607>>,
     <<1571,1607,1604>>,
     <<1593,1575,1574,1604,1577>>,
     <<1576,1585,32,1575,1604,1608,1575,1604,1583,1610,1606>> >>

ISLAMIC_COPING ==
  [ anxious  |-> <<1580,1585,1617,1576,32,1584,1603,1585,32,1575,1604,1604,1607,32,1608,1575,1604,1578,1606,1601,1587,32,1575,1604,1593,1605,1610,1602,58,32,39,1604,1575,32,1573,1604,1607,32,1573,1604,1575,32,1575,1604,1604,1607,39,32,1605,1593,32,1588,1607,1610,1602,32,1608,1586,1601,1610,1585,32,1607,1575,1583,1574,46>>,
    sad      |-> <<1578,1584,1603,1617,1585,32,1602,1608,1604,32,1575,1604,1604,1607,58,32,39,1573,1606,32,1605,1593,32,1575,1604,1593,1587,1585,32,1610,1587,1585,1575,39,46,32,1575,1604,1583,1593,1605,32,1605,1608,1580,1608,1583,32,1608,1571,1606,1578,32,1604,1587,1578,32,1608,1581,1583,1603,46>>,
    angry    |-> <<1575,1587,1578,1593,1584,32,1576,1575,1604,1604,1607,32,1605,1606,32,1575,1604,1588,1610,1591,1575,1606,1548,32,1608,1578,1608,1590,1571,32,1573,1606,32,1575,1587,1578,1591,1593,1578,1548,32,1608,1582,1584,32,1583,1602,1610,1602,1577,32,1604,1604,1578,1607,1583,1574,1577,46>>,
    stressed |-> <<1578,1608,1603,1604,32,1593,1604,1609,32,1575,1604,1604,1607,32,1608,1582,1584,32,1575,1604,1571,1605,1608,1585,32,1582,1591,1608,1577,32,1582,1591,1608,1577,46,32,1587,1606,1590,1593,32,1582,1591,1577,32,1589,1594,1610,1585,1577,32,1605,1593,1611,1575,46>> ]

\* the words of maybe_add_religious that show a religious theme
religious_words ==
  << <<1575,1604,1604,1607>>,
     <<1583,1610,1606>>,
     <<1583,1593,1575,1569>>,
     <<1589,1604,1575,1577>> >>

maybe_add_religious(bot_text, lang, emotion, user_text) ==
  IF lang # "ar" THEN bot_text
  ELSE IF /\ \E k \in 1..Len(religious_words) : Contains(user_text, religious_words[k])
          /\ emotion \in DOMAIN ISLAMIC_COPING
          /\ \A k \in 1..Len(CULTURAL_POSITIVE) : ~Contains(bot_text, CULTURAL_POSITIVE[k])
       THEN bot_text \o << 10, 10 >> \o ISLAMIC_COPING[emotion]
  ELSE bot_text

\* the fixed crisis texts of handle_turn
crisis_text_ar == <<1587,1604,1575,1605,1578,1603,32,1571,1608,1604,1575,1611,46,32,1573,1584,1575,32,1603,1575,1606,32,1607,1606,1575,1603,32,1582,1591,1585,32,1605,1576,1575,1588,1585,1548,32,1575,1578,1589,1604,32,1576,1575,1604,1591,1608,1575,1585,1574,32,1601,1608,1585,1611,1575,32,40,57,57,57,41,46,32,1582,1591,32,1575,1604,1605,1587,1575,1593,1583,1577,58,32,56,48,48,55,55,46>>
crisis_text_en == <<89,111,117,114,32,115,97,102,101,116,121,32,99,111,109,101,115,32,102,105,114,115,116,46,32,73,102,32,116,104,101,114,101,8217,115,32,105,109,109,101,100,105,97,116,101,32,100,97,110,103,101,114,32,99,97,108,108,32,57,57,57,46,32,72,101,108,112,108,105,110,101,58,32,56,48,48,55,55,46>>

\* the replies of chat_reply without a client
chat_fixed_ar == <<1571,1601,1607,1605,1603,46,32,1582,1604,1617,1606,1575,32,1606,1601,1607,1605,32,1571,1603,1579,1585,58,32,1605,1578,1609,32,1576,1583,1571,32,1607,1584,1575,32,1575,1604,1588,1593,1608,1585,1567,32,1608,1605,1575,32,1575,1604,1605,1608,1575,1602,1601,32,1575,1604,1578,1610,32,1578,1586,1610,1583,1607,1567>>
chat_fixed_en == <<73,32,104,101,97,114,32,121,111,117,46,32,87,104,101,110,32,100,105,100,32,116,104,105,115,32,115,116,97,114,116,44,32,97,110,100,32,119,104,97,116,32,116,101,110,100,115,32,116,111,32,109,97,107,101,32,105,116,32,115,116,114,111,110,103,101,114,63>>

\* openai_moderation_block treating a failed moderation call as a flag
openai_moderation_block_closed(client, moderation) ==
  IF ~client THEN FALSE
  ELSE moderation \in {"flagged", "raised"}

\* openai_moderation_block: client tells whether get_client() gave a client,
\* moderation what the moderation call did ("flagged", "clean" or "raised")
openai_moderation_block(client, moderation) ==
  IF ~client THEN FALSE
  ELSE IF moderation = "raised" THEN FALSE
  ELSE moderation = "flagged"

\* chat_reply: the fixed text without a client, else the completion named by
\* chat without the white space at its ends (never reached with
\* chat = "raised")
chat_reply(client, chat, lang) ==
  IF ~client THEN (IF lang = "ar" THEN chat_fixed_ar ELSE chat_fixed_en)
  ELSE Strip(BotText[chat])

\* handle_turn under the outcomes env of the services it awaits: env.client,
\* env.moderation, env.chat (a name of BotText or "raised"), env.tts ("ok"
\* for bytes, "empty" for no bytes, or "raised").  The result lists the calls
\* made with what they returned, and the returned dict (out is empty when an
\* exception left the function); audio tells what tts_to_mp3 returned, the
\* culture assessment of the dict is left out.
handle_turn(user_text, env) ==
  LET lang    == detect_lang(user_text)
      risk    == risk_detect(user_text, lang)
      flagged == openai_moderation_block(env.client, env.moderation)
      checks  == IF risk THEN << << "risk_detect", TRUE >> >>
                 ELSE << << "risk_detect", FALSE >>,
                         << "openai_moderation_block", flagged >> >>
      tts     == << << "tts_to_mp3", env.tts >> >>
  IN  IF risk \/ flagged
      THEN [ calls |-> checks \o tts,
             out   |-> IF env.tts = "raised" THEN << >>
                       ELSE << [ text   |-> IF lang = "ar" THEN crisis_text_ar
                                            ELSE crisis_text_en,
                                 lang   |-> lang,
                                 audio  |-> env.tts,
                                 safety |-> "crisis" ] >> ]
      ELSE IF env.client /\ env.chat = "raised"
      THEN [ calls |-> checks \o << << "chat_reply", "raised" >> >>,
             out   |-> << >> ]
      ELSE LET bot == chat_reply(env.client, env.chat, lang)
               emo == emotion_hint(user_text, lang)
           IN  [ calls |-> checks \o << << "chat_reply", "returned" >> >> \o tts,
                 out   |-> IF env.tts = "raised" THEN << >>
                           ELSE << [ text    |-> maybe_add_religious(bot, lang, emo,
                                                                     user_text),
                                     lang    |-> lang,
                                     audio   |-> env.tts,
                                     safety  |-> "ok",
                                     emotion |-> emo ] >> ]

\* the outcomes the services can have together: without a client neither
\* the moderation nor the chat model is called
TurnEnvs ==
  { [ client |-> FALSE, moderation |-> "no client", chat |-> "no client", tts |-> t ] :
      t \in {"ok", "empty", "raised"} }
  \cup
  { [ client |-> TRUE, moderation |-> m, chat |-> c, tts |-> t ] :
      m \in {"flagged", "clean", "raised"}, c \in DOMAIN BotText \cup {"raised"},
      t \in {"ok", "empty", "raised"} }

\* the result of handle_turn on every text under every outcome
turn_table == [u \in DOMAIN TurnText |-> [env \in TurnEnvs |-> handle_turn(TurnText[u], env)]]

\* one call of handle_turn (it keeps no state of its own); the record keeps
\* what the moderation check met when it was called
HandleTurn(u, env) ==
  LET turn == turn_table[u][env]
  IN  /\ turn_call' = << [ text       |-> u,
                           moderation |-> IF Len(turn.calls) >= 2
                                             /\ turn.calls[2][1] = "openai_moderation_block"
                                          THEN env.moderation ELSE "not called",
                           calls      |-> turn.calls,
                           out        |-> turn.out ] >>
      /\ UNCHANGED << safety_vars, therapy_vars, app_vars, call_vars, llm_vars, ws_vars >>

(***************************************************************************)
(* The WebSocket handler (src/app/routes/ws.py)                            *)
(***************************************************************************)

disclaimer_ar == <<1571,1606,1575,32,1583,1593,1605,32,1606,1601,1587,1610,32,1593,1575,1605,32,1608,1604,1587,1578,32,1576,1583,1610,1604,1575,1611,32,1593,1606,32,1585,1593,1575,1610,1577,32,1591,1576,1610,1577,32,1591,1575,1585,1574,1577,46,32,1573,1584,1575,32,1603,1575,1606,32,1607,1606,1575,1603,32,1582,1591,1585,32,1605,1576,1575,1588,1585,32,1575,1578,1589,1604,32,1576,1600,32,57,57,57,46>>
disclaimer_en == <<73,32,112,114,111,118,105,100,101,32,115,117,112,112,111,114,116,105,118,101,32,99,111,117,110,115,101,108,105,110,103,32,97,110,100,32,97,109,32,110,111,116,32,97,32,115,117,98,115,116,105,116,117,116,101,32,102,111,114,32,101,109,101,114,103,101,110,99,121,32,99,97,114,101,46,32,73,102,32,105,110,32,100,97,110,103,101,114,44,32,99,97,108,108,32,57,57,57,46>>

\* the frame send_disclaimer sends
DisclaimerFrame(lang) ==
  [ type |-> "notice",
    kind |-> "disclaimer",
    text |-> IF lang = "ar" THEN disclaimer_ar ELSE disclaimer_en,
    lang |-> lang ]

ErrorFrame(message) == [ type |-> "error", message |-> message ]

\* the text_response frame of respond() (culture is left out)
TextResponseFrame(out) ==
  [ type     |-> "text_response",
    response |-> out.text,
    lang     |-> out.lang,
    safety   |-> out.safety,
    emotion  |-> IF "emotion" \in DOMAIN out THEN out.emotion ELSE None ]

\* the audio_response frame of respond() (audio_data and processing_time are
\* left out)
AudioResponseFrame(user_text, out) ==
  [ type          |-> "audio_response",
    transcript    |-> user_text,
    response_text |-> out.text,
    lang          |-> out.lang,
    safety        |-> out.safety ]

\* the texts and service outcomes of the turns on the connection
WsTexts == {"t_spaces", "t_padded", "t_intihar", "t_hello"}

WsEnvs ==
  { [ client |-> FALSE, moderation |-> "no client", chat |-> "no client", tts |-> "raised" ],
    [ client |-> TRUE, moderation |-> "flagged", chat |-> "b_more_en", tts |-> "ok" ],
    [ client |-> TRUE, moderation |-> "clean", chat |-> "b_padded", tts |-> "ok" ],
    [ client |-> TRUE, moderation |-> "clean", chat |-> "b_more_en", tts |-> "empty" ],
    [ client |-> TRUE, moderation |-> "clean", chat |-> "raised", tts |-> "ok" ] }

\* handle_turn on the texts respond() is called with: the stripped text of a
\* text_message and the recognised text of an audio_chunk
ws_turn_table ==
  [ user_text \in {Strip(TurnText[u]) : u \in WsTexts} \cup {TurnText[u] : u \in WsTexts} |->
      [env \in WsEnvs |-> handle_turn(user_text, env)] ]

\* the handler goes back to receive_text (line 73)
ws_next_frame ==
  /\ ws_pc' = "receive"
  /\ ws_frame' = NoTurn
  /\ UNCHANGED ws_open

\* an exception leaves ws_handler: WebSocketDisconnect is passed over on
\* line 105, any other ends the coroutine with it
ws_leave ==
  /\ ws_open' = FALSE
  /\ ws_pc' = "closed"
  /\ ws_frame' = NoTurn

\* an exception inside the turn of ws_frame: that of an audio_chunk is caught
\* on line 90 (WebSocketDisconnect is an Exception) and answered with
\* audio_error, that of a text_message leaves the handler
ws_turn_raised ==
  IF ws_frame.kind = "audio"
  THEN /\ ws_sent' = Append(ws_sent, ErrorFrame("audio_error"))
       /\ ws_pc' = "send_error"
       /\ ws_frame' = NoTurn
       /\ UNCHANGED ws_open
  ELSE /\ ws_leave
       /\ UNCHANGED ws_sent

\* respond() asking for the disclaimer on every turn: the flag is not read
respond_unflagged(turn) ==
  /\ ws_frame' = turn
  /\ ws_sent' = Append(ws_sent, DisclaimerFrame(turn.lang))
  /\ ws_pc' = "send_disclaimer"
  /\ UNCHANGED << ws_open, ws_history, showed_disclaimer, ws_raised >>

\* respond(user_text, lang_guess, want_voice) up to its first await, turn
\* holding its arguments: send_text for the disclaimer while
\* showed_disclaimer is false (lines 33-35), else handle_turn (line 40)
respond(turn) ==
  /\ ws_frame' = turn
  /\ IF ~showed_disclaimer
     THEN /\ ws_sent' = Append(ws_sent, DisclaimerFrame(turn.lang))
          /\ ws_pc' = "send_disclaimer"
     ELSE /\ ws_pc' = "handle_turn"
          /\ UNCHANGED ws_sent
  /\ UNCHANGED << ws_open, ws_history, showed_disclaimer, ws_raised >>

\* a frame that json.loads rejects
ws_bad_json ==
  /\ ws_pc = "receive"
  /\ ws_sent' = Append(ws_sent, ErrorFrame("bad_json"))
  /\ ws_pc' = "send_error"
  /\ UNCHANGED << ws_open, ws_history, showed_disclaimer, ws_frame, ws_raised >>
  /\ UNCHANGED << safety_vars, therapy_vars, app_vars, call_vars, llm_vars, chat_vars >>

\* a frame of valid JSON that is no object: data.get raises AttributeError,
\* which leaves ws_handler
ws_non_object ==
  /\ ws_pc = "receive"
  /\ ws_leave
  /\ UNCHANGED << ws_history, showed_disclaimer, ws_sent, ws_raised >>
  /\ UNCHANGED << safety_vars, therapy_vars, app_vars, call_vars, llm_vars, chat_vars >>

\* an object whose type is neither audio_chunk nor text_message
ws_unknown_type ==
  /\ ws_pc = "receive"
  /\ ws_sent' = Append(ws_sent, ErrorFrame("unknown_type"))
  /\ ws_pc' = "send_error"
  /\ UNCHANGED << ws_open, ws_history, showed_disclaimer, ws_frame, ws_raised >>
  /\ UNCHANGED << safety_vars, therapy_vars, app_vars, call_vars, llm_vars, chat_vars >>

\* a text_message frame (lines 94-100) up to the first await
ws_text_message(u, prefer_voice) ==
  LET msg == Strip(TurnText[u])
  IN  /\ ws_pc = "receive"
      /\ IF msg = << >>
         THEN /\ ws_sent' = Append(ws_sent, ErrorFrame("empty_message"))
              /\ ws_pc' = "send_error"
              /\ UNCHANGED << ws_open, ws_history, showed_disclaimer, ws_frame, ws_raised >>
         ELSE respond([ kind |-> "text", user_text |-> msg, lang |-> detect_lang(msg),
                        want_voice |-> prefer_voice, out |-> << >> ])
      /\ UNCHANGED << safety_vars, therapy_vars, app_vars, call_vars, llm_vars, chat_vars >>

\* an audio_chunk frame (lines 83-86) up to the first await: decoded tells
\* whether data["audio_data"] is there and decodes; if so the handler awaits
\* stt_from_wav_autolang
ws_audio_chunk(decoded, want_voice) ==
  /\ ws_pc = "receive"
  /\ IF decoded
     THEN /\ ws_pc' = "stt"
          /\ ws_frame' = [ NoTurn EXCEPT !.kind = "audio", !.want_voice = want_voice ]
          /\ UNCHANGED ws_sent
     ELSE /\ ws_sent' = Append(ws_sent, ErrorFrame("audio_error"))
          /\ ws_pc' = "send_error"
          /\ UNCHANGED ws_frame
  /\ UNCHANGED << ws_open, ws_history, showed_disclaimer, ws_raised >>
  /\ UNCHANGED << safety_vars, therapy_vars, app_vars, call_vars, llm_vars, chat_vars >>

\* stt_from_wav_autolang returns the text u in language lang, or raises
\* (stt_ok = FALSE); lines 87-89
ws_stt_return(stt_ok, u, lang) ==
  /\ ws_pc = "stt"
  /\ IF stt_ok
     THEN respond([ ws_frame EXCEPT !.user_text = TurnText[u], !.lang = lang ])
     ELSE /\ ws_turn_raised
          /\ UNCHANGED << ws_history, showed_disclaimer, ws_raised >>
  /\ UNCHANGED << safety_vars, therapy_vars, app_vars, call_vars, llm_vars, chat_vars >>

\* send_text of the disclaimer (line 35) returns and the flag is set (line
\* 36), or raises (ok = FALSE) and the flag stays as it is
ws_disclaimer_sent(ok) ==
  /\ ws_pc = "send_disclaimer"
  /\ IF ok
     THEN /\ showed_disclaimer' = TRUE
          /\ ws_pc' = "handle_turn"
          /\ UNCHANGED << ws_open, ws_sent, ws_frame, ws_raised >>
     ELSE /\ ws_raised' = ws_raised \cup {Len(ws_sent)}
          /\ ws_turn_raised
          /\ UNCHANGED showed_disclaimer
  /\ UNCHANGED ws_history
  /\ UNCHANGED << safety_vars, therapy_vars, app_vars, call_vars, llm_vars, chat_vars >>

\* handle_turn (line 40) returns under the service outcomes env, or raises:
\* the two history entries are added and the text_response is handed to
\* send_text (lines 43-56)
ws_handle_turn_return(env) ==
  LET turn == ws_turn_table[ws_frame.user_text][env]
  IN  /\ ws_pc = "handle_turn"
      /\ IF turn.out = << >>
         THEN /\ ws_turn_raised
              /\ UNCHANGED ws_history
         ELSE /\ ws_history' =
                   ws_history \o << [ role |-> "user", content |-> ws_frame.user_text ],
                                    [ role |-> "assistant", content |-> turn.out[1].text ] >>
              /\ ws_sent' = Append(ws_sent, TextResponseFrame(turn.out[1]))
              /\ ws_frame' = [ ws_frame EXCEPT !.out = turn.out ]
              /\ ws_pc' = "send_text_response"
              /\ UNCHANGED ws_open
      /\ UNCHANGED << showed_disclaimer, ws_raised >>
      /\ UNCHANGED << safety_vars, therapy_vars, app_vars, call_vars, llm_vars, chat_vars >>

\* send_text of the text_response (line 49) returns: the audio_response is
\* handed to send_text when voice is wanted and there are audio bytes (lines
\* 59-61), else the turn is over
ws_text_response_sent(ok) ==
  /\ ws_pc = "send_text_response"
  /\ IF ~ok
     THEN /\ ws_raised' = ws_raised \cup {Len(ws_sent)}
          /\ ws_turn_raised
     ELSE IF ws_frame.want_voice /\ ws_frame.out[1].audio = "ok"
     THEN /\ ws_sent' = Append(ws_sent, AudioResponseFrame(ws_frame.user_text,
                                                            ws_frame.out[1]))
          /\ ws_pc' = "send_audio_response"
          /\ UNCHANGED << ws_open, ws_frame, ws_raised >>
     ELSE /\ ws_next_frame
          /\ UNCHANGED << ws_sent, ws_raised >>
  /\ UNCHANGED << ws_history, showed_disclaimer >>
  /\ UNCHANGED << safety_vars, therapy_vars, app_vars, call_vars, llm_vars, chat_vars >>

\* send_text of the audio_response (line 61) returns or raises
ws_audio_response_sent(ok) ==
  /\ ws_pc = "send_audio_response"
  /\ IF ok
     THEN /\ ws_next_frame
          /\ UNCHANGED << ws_sent, ws_raised >>
     ELSE /\ ws_raised' = ws_raised \cup {Len(ws_sent)}
          /\ ws_turn_raised
  /\ UNCHANGED << ws_history, showed_disclaimer >>
  /\ UNCHANGED << safety_vars, therapy_vars, app_vars, call_vars, llm_vars, chat_vars >>

\* send_text of an error frame (lines 77, 91, 96, 103) returns, or raises and
\* leaves the handler
ws_error_sent(ok) ==
  /\ ws_pc = "send_error"
  /\ IF ok
     THEN /\ ws_next_frame
          /\ UNCHANGED ws_raised
     ELSE /\ ws_raised' = ws_raised \cup {Len(ws_sent)}
          /\ ws_leave
  /\ UNCHANGED << ws_history, showed_disclaimer, ws_sent >>
  /\ UNCHANGED << safety_vars, therapy_vars, app_vars, call_vars, llm_vars, chat_vars >>

\* receive_text raises WebSocketDisconnect: the handler returns
ws_disconnect ==
  /\ ws_pc = "receive"
  /\ ws_leave
  /\ UNCHANGED << ws_history, showed_disclaimer, ws_sent, ws_raised >>
  /\ UNCHANGED << safety_vars, therapy_vars, app_vars, call_vars, llm_vars, chat_vars >>

(***************************************************************************)
(* Direct calls of the scoring functions                                   *)
(***************************************************************************)

\* one call of _assess_urgency on a level, a type and a context dict
AssessUrgency(crisis_level, crisis_type, context_analysis) ==
  /\ unit_call' = << [ fn       |-> "_assess_urgency",
                       args     |-> << crisis_level, crisis_type, context_analysis >>,
                       returned |-> _assess_urgency(crisis_level, crisis_type,
                                                    context_analysis) ] >>
  /\ UNCHANGED << safety_vars, therapy_vars, app_vars, llm_vars, chat_vars, ws_vars >>

\* one call of _determine_crisis_type on the two detectors' results
DetermineCrisisType(keyword_analysis, pattern_analysis) ==
  /\ unit_call' = << [ fn       |-> "_determine_crisis_type",
                       args     |-> << keyword_analysis, pattern_analysis >>,
                       returned |-> _determine_crisis_type(keyword_analysis,
                                                           pattern_analysis) ] >>
  /\ UNCHANGED << safety_vars, therapy_vars, app_vars, llm_vars, chat_vars, ws_vars >>

(***************************************************************************)
(* Specifications                                                          *)
(***************************************************************************)

\* a new call runs in the lowest free coroutine slot (slots carry no meaning)
FreeSlot(c) ==
  /\ pc[c] \in {"idle", "done"}
  /\ \A d \in Calls : d < c => pc[d] \notin {"idle", "done"}

HistoryReturn == \E c \in Calls, ok \in BOOLEAN : analyze_safety_history(c, ok)

LogReturn == \E c \in Calls, ok \in BOOLEAN : analyze_safety_logged(c, ok)

\* Spec: concurrent calls on two sessions, with raising subsystems and a
\* failing store
Begin ==
  \E c \in Calls, s \in Sessions, m \in MainMessages \cup {None}, f \in Faults :
    /\ ncalls < MaxCalls
    /\ FreeSlot(c)
    /\ analyze_safety_begin(c, s, m, f)

Next == Begin \/ HistoryReturn \/ LogReturn

Spec == Init /\ [][Next]_vars

\* SpecLong: one caller sends more messages to one session than the history keeps
InitLong == Init

BeginLong ==
  \E m \in LongMessages :
    /\ ncalls < MaxLongCalls
    /\ analyze_safety_begin(1, "s1", m, "none")

\* the store answers every call of the long runs
HistoryReturnOk == \E c \in Calls : analyze_safety_history(c, TRUE)

LogReturnOk == \E c \in Calls : analyze_safety_logged(c, TRUE)

NextLong == BeginLong \/ HistoryReturnOk \/ LogReturnOk

SpecLong == InitLong /\ [][NextLong]_vars

\* SpecEsc: one caller analyses messages of one session and asks for the
\* escalation decision between them
InitEsc == Init

BeginEsc ==
  \E m \in EscMessages \cup {None} :
    /\ ncalls < MaxEscCalls
    /\ analyze_safety_begin(1, "s1", m, "none")

Escalate ==
  \E lvl \in 0..MaxLevelArg : CheckEscalation("s1", lvl)

NextEsc == BeginEsc \/ HistoryReturnOk \/ LogReturnOk \/ Escalate

SpecEsc == InitEsc /\ [][NextEsc]_vars

\* SpecWindow: as SpecEsc, with two messages and histories longer than the
\* five events the escalation check reads
InitWindow == Init

BeginWindow ==
  \E m \in LongMessages :
    /\ ncalls < MaxWindowCalls
    /\ analyze_safety_begin(1, "s1", m, "none")

NextWindow == BeginWindow \/ HistoryReturnOk \/ LogReturnOk \/ Escalate

SpecWindow == InitWindow /\ [][NextWindow]_vars

\* SpecScore: one caller analyses every message of the table, one after the
\* other, in one session whose store answers
InitScore == Init

BeginScore ==
  \E m \in Messages :
    /\ ncalls < MaxScoreCalls
    /\ analyze_safety_begin(1, "s1", m, "none")

NextScore == BeginScore \/ HistoryReturnOk \/ LogReturnOk

SpecScore == InitScore /\ [][NextScore]_vars

\* SpecSession: sessions are opened by their first message, analysed and ended,
\* over a store that holds no earlier conversation
InitSession == Init /\ store_history = [s \in Sessions |-> history_empty]

BeginSession ==
  \E s \in Sessions, m \in LongMessages :
    /\ ncalls < MaxSessionCalls
    /\ analyze_safety_begin(1, s, m, "none")

Respond == \E s \in Sessions : generate_response(s)

EndSession == \E s \in Sessions : end_session_call(s)

SaveReturn == \E i \in 1..MaxEnding, ok \in BOOLEAN : end_session_return(i, ok)

NextSession ==
  \/ BeginSession
  \/ HistoryReturnOk
  \/ LogReturnOk
  \/ Respond
  \/ EndSession
  \/ SaveReturn

SpecSession == InitSession /\ [][NextSession]_vars

\* SpecRisk: the risk filter is called on every text of RiskTexts
InitRisk == Init

RiskCheck == \E text \in RiskTexts, lang \in Langs : RiskDetect(text, lang)

NextRisk == RiskCheck

SpecRisk == InitRisk /\ [][NextRisk]_vars

\* SpecUnit: _assess_urgency and _determine_crisis_type are called, once in a
\* behaviour, on every input of the shapes the detectors and the context
\* analysis produce
InitUnit == Init

\* every value crisis_type takes in analyze_safety, and the fallback's
UnitTypes ==
  { "suicide_risk", "self_harm_risk", "violence_risk", "mental_health_emergency",
    "substance_abuse", "severe_depression", "social_crisis", "emotional_distress",
    "unknown" }

UnitContexts == {[DefaultContext EXCEPT !.escalation_detected = e] : e \in BOOLEAN}

\* the words of a sequence joined by single spaces
RECURSIVE UnitMessage(_)
UnitMessage(words) ==
  IF words = << >> THEN << >>
  ELSE IF Len(words) = 1 THEN words[1]
  ELSE words[1] \o << 32 >> \o UnitMessage(Tail(words))

\* what _analyze_crisis_keywords returns for a message made of the first
\* keyword of each category of cats
UnitKeywordAnalysis(cats) ==
  LET chosen == SelectSeq(CategoryOrder, LAMBDA c : c \in cats)
  IN  _analyze_crisis_keywords(
        UnitMessage([i \in 1..Len(chosen) |-> crisis_keywords[chosen[i]][1]]))

\* the word lists of the patterns the detector counts
PatternWords ==
  [ finality_statements |-> finality_words,
    goodbye_messages    |-> goodbye_words,
    extreme_language    |-> extreme_words,
    worthlessness       |-> worthless_words ]

\* what _analyze_crisis_patterns returns for a message made of the first
\* word of each pattern of pats
UnitPatternAnalysis(pats) ==
  LET chosen == SelectSeq(PatternOrder, LAMBDA p : p \in pats)
  IN  _analyze_crisis_patterns(
        UnitMessage([i \in 1..Len(chosen) |-> PatternWords[chosen[i]][1]]))

UnitUrgency ==
  \E crisis_level \in 0..MaxLevelArg, crisis_type \in UnitTypes, ctx \in UnitContexts :
    /\ unit_call = << >>
    /\ AssessUrgency(crisis_level, crisis_type, ctx)

\* every set of matched categories, every set of counted patterns
UnitKeywordInputs == {UnitKeywordAnalysis(cats) : cats \in SUBSET Range(CategoryOrder)}

UnitPatternInputs ==
  { UnitPatternAnalysis(pats) :
      pats \in SUBSET DOMAIN PatternWords }

UnitType ==
  \E keyword_analysis \in UnitKeywordInputs, pattern_analysis \in UnitPatternInputs :
    /\ unit_call = << >>
    /\ DetermineCrisisType(keyword_analysis, pattern_analysis)

NextUnit == UnitUrgency \/ UnitType

SpecUnit == InitUnit /\ [][NextUnit]_vars

\* SpecLLM: the service is initialised and cleaned up, and asked to analyse
\* every message under every reply of the model
InitLLM == Init

LLMReplies == DOMAIN Reply

Initialize == \E ok \in BOOLEAN : initialize(ok)

Cleanup == \E ok \in BOOLEAN : cleanup(ok)

AnalyzeIndicators ==
  \E m \in Messages, reply \in LLMReplies \cup {"raised"} :
    analyze_crisis_indicators(m, reply)

NextLLM == Initialize \/ Cleanup \/ AnalyzeIndicators

SpecLLM == InitLLM /\ [][NextLLM]_vars

\* SpecTurn: handle_turn is called on every text of TurnText under every
\* outcome of the moderation service, the chat model and the synthesiser
InitTurn == Init

Turn == \E u \in DOMAIN TurnText, env \in TurnEnvs : HandleTurn(u, env)

NextTurn == Turn

SpecTurn == InitTurn /\ [][NextTurn]_vars

\* SpecWs: one connection receives frames of every kind while fewer than
\* MaxSent frames have been sent (the session store plays no part and
\* starts empty)
InitWs == Init /\ store_history = [s \in Sessions |-> history_empty]

WsBadJson == Len(ws_sent) < MaxSent /\ ws_bad_json

WsNonObject == Len(ws_sent) < MaxSent /\ ws_non_object

WsUnknownType == Len(ws_sent) < MaxSent /\ ws_unknown_type

WsTextMessage ==
  \E u \in WsTexts, prefer_voice \in BOOLEAN :
    Len(ws_sent) < MaxSent /\ ws_text_message(u, prefer_voice)

WsAudioChunk ==
  \E decoded \in BOOLEAN, want_voice \in BOOLEAN :
    Len(ws_sent) < MaxSent /\ ws_audio_chunk(decoded, want_voice)

WsSttReturn ==
  \E stt_ok \in BOOLEAN, u \in WsTexts, lang \in Langs : ws_stt_return(stt_ok, u, lang)

WsDisclaimerSent == \E ok \in BOOLEAN : ws_disclaimer_sent(ok)

WsHandleTurnReturn == \E env \in WsEnvs : ws_handle_turn_return(env)

WsTextResponseSent == \E ok \in BOOLEAN : ws_text_response_sent(ok)

WsAudioResponseSent == \E ok \in BOOLEAN : ws_audio_response_sent(ok)

WsErrorSent == \E ok \in BOOLEAN : ws_error_sent(ok)

WsDisconnect == ws_disconnect

NextWs ==
  \/ WsBadJson
  \/ WsNonObject
  \/ WsUnknownType
  \/ WsTextMessage
  \/ WsAudioChunk
  \/ WsSttReturn
  \/ WsDisclaimerSent
  \/ WsHandleTurnReturn
  \/ WsTextResponseSent
  \/ WsAudioResponseSent
  \/ WsErrorSent
  \/ WsDisconnect

SpecWs == InitWs /\ [][NextWs]_vars


(***************************************************************************)
(* Shorthands for the claims                                               *)
(***************************************************************************)

Returned == result # << >>

Verdict == result[1].verdict

\* the verdict came from the except branch
IsFallback(verdict) == "error" \in DOMAIN verdict

\* the events kept for a session (empty when the session is not tracked)
EventsOf(s) ==
  IF s \in DOMAIN session_crisis_history THEN session_crisis_history[s] ELSE << >>

CategoryTypes ==
  { "suicide_risk", "self_harm_risk", "violence_risk", "mental_health_emergency",
    "substance_abuse", "severe_depression", "social_crisis" }

UrgencyTiers == {"none", "low", "moderate", "urgent", "immediate"}

(***************************************************************************)
(* Claims                                                                  *)
(***************************************************************************)

\* C1: the crisis_level of every verdict analyze_safety returns, the fallback
\* of the except branch included, is an integer in 0..10.
C1_CrisisLevelInRange ==
  Returned => Verdict.crisis_level \in 0..10

\* a verdict of the normal path whose weighted total was above 10 and was clamped
C1_Witness ==
  /\ Returned
  /\ ~IsFallback(Verdict)
  /\ Verdict.crisis_level = 10
  /\ TotalScore(Verdict.indicators.keywords, Verdict.indicators.patterns,
                Verdict.indicators.context) >= 220

\* C2: in every returned verdict crisis_level >= 9 implies requires_escalation.
C2_CriticalRequiresEscalation ==
  Returned /\ Verdict.crisis_level >= 9 => Verdict.requires_escalation = TRUE

\* a verdict of level exactly 9, with requires_escalation set
C2_Witness ==
  /\ Returned
  /\ Verdict.crisis_level = 9
  /\ Verdict.requires_escalation

\* C3: check_escalation_needed with current_crisis_level >= 9 returns
\* immediate_danger and escalation_needed, whatever the session history and
\* the other three criteria.
C3_ImmediateDangerEscalates ==
  assessment # << >> /\ assessment[1].current_crisis_level >= 9
    => /\ assessment[1].returned.criteria_met.immediate_danger
       /\ assessment[1].returned.escalation_needed

\* Scenario 4: level 9 on a session with no history; no other criterion is met
C3_Witness ==
  /\ assessment # << >>
  /\ assessment[1].current_crisis_level = 9
  /\ assessment[1].history = << >>
  /\ ~assessment[1].returned.criteria_met.sustained_high_risk
  /\ ~assessment[1].returned.criteria_met.increasing_severity
  /\ ~assessment[1].returned.criteria_met.failed_interventions
  /\ assessment[1].returned.escalation_needed

\* C4: every session's list in session_crisis_history has at most 10 entries.
C4_HistoryCapped ==
  \A s \in DOMAIN session_crisis_history : Len(session_crisis_history[s]) <= 10

\* the eleventh analysis of a session has completed and the list holds 10
C4_Witness ==
  /\ ncalls = 11
  /\ pc[1] = "done"
  /\ Len(EventsOf("s1")) = 10

\* C5: when the keyword matcher, the pattern detector or the aggregation
\* raises, analyze_safety returns the fixed fallback verdict.
C5_FallbackOnSubsystemFailure ==
  Returned /\ (result[1].fault # "none" \/ result[1].message = None)
    => /\ Verdict.crisis_level = 8
       /\ Verdict.crisis_type = "unknown"
       /\ Verdict.urgency = "high"
       /\ Verdict.requires_intervention = TRUE

\* the aggregation raised after both detectors and the context analysis ran
C5_Witness ==
  /\ Returned
  /\ result[1].fault = "aggregation"
  /\ Verdict.crisis_level = 8
  /\ Verdict.crisis_type = "unknown"

\* C6: a failure of the store (the history query or the log_crisis_event
\* append) never yields the fallback verdict: the caller receives the verdict
\* of the detectors, with an all-false context when the query failed.
C6_StoreFailureNoFallback ==
  /\ Returned
  /\ result[1].fault = "none"
  /\ result[1].message # None
  /\ (~result[1].history_ok \/ result[1].logged = "failed")
  => /\ ~IsFallback(Verdict)
     /\ Verdict.crisis_type # "unknown"
     /\ ~result[1].history_ok =>
          Verdict.crisis_level =
            _calculate_crisis_level(keyword_table[result[1].message],
                                    pattern_table[result[1].message],
                                    DefaultContext)

\* C7: two analyses of one session are serialized: no call reads the
\* session's history while another call of that session stands between its
\* own history read and its history append.
C7_SessionSerialized ==
  \A a, b \in Calls :
    a # b /\ pc[a] = "await_history" /\ pc[b] = "await_history"
      => frame[a].session_id # frame[b].session_id

\* C8 as stated: every returned verdict, on every path, has one of the seven
\* category types or emotional_distress.
C8_TypeClosedOnEveryPath ==
  Returned => Verdict.crisis_type \in CategoryTypes \cup {"emotional_distress"}

\* C8 amended: a verdict of the normal path has one of the seven category
\* types or emotional_distress; the fallback verdict has crisis_type unknown.
C8_TypeClosedOnNormalPath ==
  Returned =>
    IF IsFallback(Verdict)
    THEN Verdict.crisis_type = "unknown"
    ELSE Verdict.crisis_type \in CategoryTypes \cup {"emotional_distress"}

\* a message without any match gets the emotional_distress type
C8_Witness ==
  /\ Returned
  /\ ~IsFallback(Verdict)
  /\ Verdict.indicators.keywords.matches = << >>
  /\ Verdict.crisis_type = "emotional_distress"

\* C9 as stated: every returned verdict, on every path, has one of the five
\* urgency tiers.
C9_UrgencyTierOnEveryPath ==
  Returned => Verdict.urgency \in UrgencyTiers

\* C9 amended: a verdict of the normal path has one of the five urgency
\* tiers; the fallback verdict has urgency high.
C9_UrgencyTierOnNormalPath ==
  Returned =>
    IF IsFallback(Verdict)
    THEN Verdict.urgency = "high"
    ELSE Verdict.urgency \in UrgencyTiers

\* a verdict of level 9 or 10 gets the immediate tier
C9_Witness ==
  /\ Returned
  /\ ~IsFallback(Verdict)
  /\ Verdict.crisis_level >= 9
  /\ Verdict.urgency = "immediate"

\* C10 as stated: every entry of every session's event list has
\* crisis_level >= 5.
C10_TrackedEventsAtLeastMedium ==
  \A s \in DOMAIN session_crisis_history :
    \A i \in 1..Len(session_crisis_history[s]) :
      session_crisis_history[s][i].crisis_level >= 5

\* C10 amended: an event is written to the store by log_crisis_event only
\* when the analysed crisis_level is >= 5, so every logged event has
\* crisis_level >= 5 (session_crisis_history gets an entry for every analysis
\* that reaches the tracking update, whatever its level).
C10_LoggedEventsAtLeastMedium ==
  \A i \in 1..Len(crisis_event_log) : crisis_event_log[i].crisis_level >= 5

\* an event was logged, and the same session tracks an analysis below 5
C10_Witness ==
  /\ crisis_event_log # << >>
  /\ \E i \in 1..Len(crisis_event_log) :
       \E j \in 1..Len(EventsOf(crisis_event_log[i].session_id)) :
         EventsOf(crisis_event_log[i].session_id)[j].crisis_level < 5

\* the last three verdicts analyze_safety had returned for the session when
\* check_escalation_needed was called, oldest first
LastThreeReturned ==
  SubSeq(assessment[1].verdicts, Len(assessment[1].verdicts) - 2,
         Len(assessment[1].verdicts))

\* C11 as stated: after three consecutive analyze_safety calls on one session
\* whose returned verdicts each have crisis_level >= 7, a following
\* check_escalation_needed call returns criteria_met.sustained_high_risk = true.
C11_SustainedAfterThreeReturned ==
  ( /\ assessment # << >>
    /\ Len(assessment[1].verdicts) >= 3
    /\ \A i \in 1..3 : LastThreeReturned[i].crisis_level >= 7 )
    => assessment[1].returned.criteria_met.sustained_high_risk

\* C11 amended: after three consecutive analyze_safety calls on one session
\* that each returned a scored verdict (not the fallback of the except
\* branch) with crisis_level >= 7, a following check_escalation_needed call
\* returns criteria_met.sustained_high_risk = true.
C11_SustainedAfterThreeScored ==
  ( /\ assessment # << >>
    /\ Len(assessment[1].verdicts) >= 3
    /\ \A i \in 1..3 : /\ LastThreeReturned[i].crisis_level >= 7
                       /\ ~LastThreeReturned[i].fallback )
    => assessment[1].returned.criteria_met.sustained_high_risk

\* Scenario 3: three scored verdicts of level >= 7, then the escalation check
\* with a current level below 9 reports the sustained high risk
C11_Witness ==
  /\ assessment # << >>
  /\ Len(assessment[1].verdicts) >= 3
  /\ \A i \in 1..3 : /\ LastThreeReturned[i].crisis_level >= 7
                     /\ ~LastThreeReturned[i].fallback
  /\ assessment[1].current_crisis_level < 9
  /\ assessment[1].returned.criteria_met.sustained_high_risk

\* the session of the returned verdict had no history before the call: the
\* store holds no row for it and the call's own event is the only one recorded
NoPriorHistory ==
  /\ store_history[result[1].session_id] = << >>
  /\ Len(recorded[result[1].session_id]) = 1

\* the returned verdict is a scored one whose message matched a suicide term
SuicideTermMatched ==
  /\ Returned
  /\ ~IsFallback(Verdict)
  /\ "suicide" \in DOMAIN Verdict.indicators.keywords.matches

\* C12 as stated: for a message that contains a suicide-category term,
\* analysed in a session with no prior history, the verdict has
\* crisis_type = suicide_risk, crisis_level >= 6 and urgency in
\* {urgent, immediate}.
C12_SuicideTermAtLeastSix ==
  SuicideTermMatched /\ NoPriorHistory
    => /\ Verdict.crisis_type = "suicide_risk"
       /\ Verdict.crisis_level >= 6
       /\ Verdict.urgency \in {"urgent", "immediate"}

\* C12 amended: for a message that contains a suicide-category term, analysed
\* in a session with no prior history, the verdict has crisis_type =
\* suicide_risk and crisis_level >= 3 (one term scores 0.5 * 3 + 1.5 = 3);
\* its urgency is low below level 5, urgent at levels 5 and 6 and immediate
\* from level 7.
C12_SuicideTermAtLeastThree ==
  SuicideTermMatched /\ NoPriorHistory
    => /\ Verdict.crisis_type = "suicide_risk"
       /\ Verdict.crisis_level >= 3
       /\ Verdict.urgency = IF Verdict.crisis_level >= 7 THEN "immediate"
                            ELSE IF Verdict.crisis_level >= 5 THEN "urgent"
                            ELSE "low"

\* a message with exactly one suicide term in a fresh session: level 3, low
C12_Witness ==
  /\ SuicideTermMatched
  /\ NoPriorHistory
  /\ Verdict.indicators.keywords.matches["suicide"].count = 1
  /\ Verdict.crisis_type = "suicide_risk"
  /\ Verdict.crisis_level = 3
  /\ Verdict.urgency = "low"

\* the returned verdict is a scored one whose message matched no category
\* term and no pattern phrase
NothingMatched ==
  /\ Returned
  /\ ~IsFallback(Verdict)
  /\ DOMAIN Verdict.indicators.keywords.matches = {}
  /\ \A p \in Range(PatternOrder) : Verdict.indicators.patterns.patterns[p] = 0

\* the context of the returned verdict raises no signal
NoContextSignal ==
  /\ ~Verdict.indicators.context.escalation_detected
  /\ ~Verdict.indicators.context.emotional_deterioration
  /\ Verdict.indicators.context.previous_interventions <= 1

\* C13 as stated: for a message that matches no category term and no pattern
\* phrase, in any session state, the verdict has crisis_level = 0,
\* crisis_type = emotional_distress, urgency = none and
\* requires_intervention = false.
C13_NoMatchLevelZero ==
  NothingMatched
    => /\ Verdict.crisis_level = 0
       /\ Verdict.crisis_type = "emotional_distress"
       /\ Verdict.urgency = "none"
       /\ Verdict.requires_intervention = FALSE

\* C13 amended: for a message that matches no category term and no pattern
\* phrase, in any session state, the verdict has crisis_type =
\* emotional_distress, requires_intervention = false and crisis_level equal
\* to the context bonus (2 for escalation_detected, 1 for
\* emotional_deterioration, 1 for previous_interventions > 1), hence at most
\* 4, with urgency low from level 3 and none below; crisis_level = 0 and
\* urgency = none hold when the session context raises no signal.
C13_NoMatchContextOnly ==
  NothingMatched
    => /\ Verdict.crisis_type = "emotional_distress"
       /\ Verdict.requires_intervention = FALSE
       /\ Verdict.crisis_level =
              (IF Verdict.indicators.context.escalation_detected THEN 2 ELSE 0)
            + (IF Verdict.indicators.context.emotional_deterioration THEN 1 ELSE 0)
            + (IF Verdict.indicators.context.previous_interventions > 1 THEN 1 ELSE 0)
       /\ Verdict.urgency = IF Verdict.crisis_level >= 3 THEN "low" ELSE "none"
       /\ NoContextSignal => Verdict.crisis_level = 0 /\ Verdict.urgency = "none"

\* a message without any match gets level 4 from the session context alone
C13_Witness ==
  /\ NothingMatched
  /\ Verdict.indicators.context.escalation_detected
  /\ Verdict.indicators.context.emotional_deterioration
  /\ Verdict.indicators.context.previous_interventions > 1
  /\ Verdict.crisis_level = 4
  /\ Verdict.urgency = "low"
  /\ Verdict.crisis_type = "emotional_distress"

\* the keys of a fully populated verdict
VerdictKeys ==
  { "crisis_level", "crisis_type", "urgency", "indicators", "recommendations",
    "requires_intervention", "requires_escalation" }

\* C14: every value analyze_safety returns, the fallback of the except branch
\* included, contains crisis_level, crisis_type, urgency, indicators,
\* recommendations, requires_intervention and requires_escalation.
C14_VerdictFullyPopulated ==
  Returned => VerdictKeys \subseteq DOMAIN Verdict

\* message m2 keeps every keyword match and every pattern count of message m1
\* and has at least one match more
Extends(m2, m1) ==
  LET k1 == keyword_table[m1].matches
      k2 == keyword_table[m2].matches
      p1 == pattern_table[m1].patterns
      p2 == pattern_table[m2].patterns
  IN  /\ \A c \in DOMAIN k1 :
           c \in DOMAIN k2 /\ Range(k1[c].matches) \subseteq Range(k2[c].matches)
      /\ \A p \in Range(PatternOrder) : p1[p] <= p2[p]
      /\ \/ \E c \in DOMAIN k2 : c \notin DOMAIN k1 \/ k1[c].count < k2[c].count
         \/ \E p \in Range(PatternOrder) : p1[p] < p2[p]

\* the crisis_level message m gets in the context of the returned verdict
LevelInSameContext(m) ==
  _calculate_crisis_level(keyword_table[m], pattern_table[m],
                          Verdict.indicators.context)

\* C15: with the session context held fixed, a message that matches one more
\* risk-category term or pattern phrase (all previous matches kept) never
\* gets a lower crisis_level than the original message.
C15_Monotone ==
  Returned /\ ~IsFallback(Verdict) =>
    \A m1 \in Messages :
      Extends(result[1].message, m1)
        => Verdict.crisis_level >= LevelInSameContext(m1)

\* the added goodbye phrase raises the level of a message that already scored,
\* in a context that adds its own bonus
C15_Witness ==
  /\ Returned
  /\ ~IsFallback(Verdict)
  /\ Verdict.indicators.context.escalation_detected
  /\ \E m1 \in Messages :
       /\ Extends(result[1].message, m1)
       /\ LevelInSameContext(m1) > 0
       /\ Verdict.crisis_level > LevelInSameContext(m1)

\* C17: after an end-session call for a session, that session has no entry
\* left in the crisis-history map (ended sessions do not accumulate).
C17_EndSessionEvicts ==
  [][ \A s \in Sessions :
        (s \in DOMAIN active_sessions /\ s \notin DOMAIN active_sessions')
          => s \notin DOMAIN session_crisis_history' ]_vars

\* C18: risk_detect(text, lang) returns true for lang = 'en' on every text
\* containing 'end my life' or 'suicide' (case-insensitively), and for
\* lang = 'ar' on every text containing the phrase of part_anhi_hayati
\* ("I end my life") or the word of part_intihar ("suicide").
C18_RiskDetectCoversIntent ==
  risk_call # << >> =>
    LET call == risk_call[1]
    IN  /\ ( /\ call.lang = "en"
             /\ \/ Contains(Lower(call.text), part_end_my_life)
                \/ Contains(Lower(call.text), part_suicide) )
             => call.returned
        /\ ( /\ call.lang = "ar"
             /\ \/ Contains(call.text, part_anhi_hayati)
                \/ Contains(call.text, part_intihar) )
             => call.returned

\* C19: after any sequence of n recorded events for a session, its list
\* equals the last min(n, 10) recorded events in recording order (the oldest
\* entry is evicted first).
C19_OldestEvictedFirst ==
  \A s \in Sessions :
    LET n == Len(recorded[s])
        k == IF n < 10 THEN n ELSE 10
    IN  EventsOf(s) = SubSeq(recorded[s], n - k + 1, n)

\* more than 10 events were recorded, and the evicted oldest one differs from
\* the oldest one kept
C19_Witness ==
  /\ Len(recorded["s1"]) > 10
  /\ Len(EventsOf("s1")) = 10
  /\ recorded["s1"][1] # EventsOf("s1")[1]
  /\ EventsOf("s1")[10] = recorded["s1"][Len(recorded["s1"])]

\* the levels of the last three events check_escalation_needed read
RecentLevels ==
  LET h == assessment[1].history
  IN  [i \in 1..3 |-> h[Len(h) - 3 + i].crisis_level]

\* C20 as stated: increasing_severity is true exactly when the session has at
\* least 3 events, the levels of its last 3 events are strictly increasing
\* (first < second < third) and their sum is > 18.
C20_IncreasingIffStrictlyIncreasing ==
  assessment # << >> =>
    ( assessment[1].returned.criteria_met.increasing_severity
      <=> /\ Len(assessment[1].history) >= 3
          /\ RecentLevels[1] < RecentLevels[2]
          /\ RecentLevels[2] < RecentLevels[3]
          /\ RecentLevels[1] + RecentLevels[2] + RecentLevels[3] > 18 )

\* C20 amended: increasing_severity is true exactly when the session has at
\* least 3 events, the level of the last event is greater than the level of
\* the third-from-last event, and the sum of the last 3 levels is > 18 (the
\* middle event enters only through the sum).
C20_IncreasingIffLastAboveFirst ==
  assessment # << >> =>
    ( assessment[1].returned.criteria_met.increasing_severity
      <=> /\ Len(assessment[1].history) >= 3
          /\ RecentLevels[1] < RecentLevels[3]
          /\ RecentLevels[1] + RecentLevels[2] + RecentLevels[3] > 18 )

\* increasing_severity is reported for three events whose levels are not
\* strictly increasing
C20_Witness ==
  /\ assessment # << >>
  /\ Len(assessment[1].history) >= 3
  /\ assessment[1].returned.criteria_met.increasing_severity
  /\ RecentLevels[1] >= RecentLevels[2] \/ RecentLevels[2] >= RecentLevels[3]

\* 20 * (0.5*category_severity + 0.3*pattern_severity + context_bonus), read
\* off the indicators of the returned verdict (total_severity is kept doubled,
\* so 0.5 * category_severity is 5 twentieths per unit)
ScoreOfVerdict ==
  LET ind == Verdict.indicators
  IN    ind.keywords.total_severity * 5
      + ind.patterns.severity * 6
      + (IF ind.context.escalation_detected THEN 40 ELSE 0)
      + (IF ind.context.emotional_deterioration THEN 20 ELSE 0)
      + (IF ind.context.previous_interventions > 1 THEN 20 ELSE 0)
      + Len(ind.keywords.high_risk_categories) * 30

\* round() of Python on t / 20: to the nearest integer, a tie to the even one
RoundNearest(t) ==
  LET q == t \div 20
      r == t % 20
  IN  IF r < 10 THEN q
      ELSE IF r > 10 THEN q + 1
      ELSE IF q % 2 = 0 THEN q ELSE q + 1

Clamp10(n) == IF n < 0 THEN 0 ELSE IF n > 10 THEN 10 ELSE n

\* C21 as stated: the crisis level equals clamp(0, 10, round(0.5 *
\* category_severity + 0.3 * pattern_severity + context_bonus)), rounding to
\* the nearest integer.
C21_LevelIsRoundedScore ==
  Returned /\ ~IsFallback(Verdict)
    => Verdict.crisis_level = Clamp10(RoundNearest(ScoreOfVerdict))

\* C21 amended: the crisis level equals clamp(0, 10, int(0.5 *
\* category_severity + 0.3 * pattern_severity + context_bonus)) with the same
\* context_bonus: the score is truncated (int(), the floor of a score that is
\* never negative), not rounded.
C21_LevelIsTruncatedScore ==
  Returned /\ ~IsFallback(Verdict)
    => Verdict.crisis_level = Clamp10(ScoreOfVerdict \div 20)

\* a score with a fraction above one half is cut down to the integer below
C21_Witness ==
  /\ Returned
  /\ ~IsFallback(Verdict)
  /\ ScoreOfVerdict % 20 > 10
  /\ ScoreOfVerdict < 200
  /\ Verdict.crisis_level = ScoreOfVerdict \div 20
  /\ Verdict.crisis_level < RoundNearest(ScoreOfVerdict)

\* the events recorded for the session of the returned verdict before the
\* call that returned it (the call's own event is the last one recorded)
RecordedBefore == Len(recorded[result[1].session_id]) - 1

\* C22 as stated: previous_interventions equals the number of crisis events
\* ever recorded for the session, for every sequence of prior analyses
\* (more than 10 of them and sessions with an empty store history included).
C22_InterventionsCountAll ==
  Returned /\ ~IsFallback(Verdict)
    => Verdict.indicators.context.previous_interventions = RecordedBefore

\* C22 amended: previous_interventions equals the length of the session's
\* in-memory event list, i.e. min(n, 10) for n events recorded before the
\* call, when the store returned a non-empty history for the session; it is 0
\* when the store's history is empty or the history query failed.
C22_InterventionsCountKept ==
  Returned /\ ~IsFallback(Verdict)
    => Verdict.indicators.context.previous_interventions =
         IF ~result[1].history_ok \/ store_history[result[1].session_id] = << >>
         THEN 0
         ELSE IF RecordedBefore < 10 THEN RecordedBefore ELSE 10

\* the twelfth analysis of a session with stored history: 11 events were
\* recorded before it, 10 are counted
C22_Witness ==
  /\ Returned
  /\ ~IsFallback(Verdict)
  /\ store_history[result[1].session_id] # << >>
  /\ RecordedBefore = 11
  /\ Verdict.indicators.context.previous_interventions = 10

\* the events of the assessed session with crisis_level >= 7 among its last
\* 5, at the time of the call
HighAmongLastFive ==
  LET h == assessment[1].history
  IN  Cardinality({i \in 1..Len(h) : i > Len(h) - 5 /\ h[i].crisis_level >= 7})

\* C24: check_escalation_needed returns escalation_needed = immediate_danger
\* OR (sustained_high_risk AND increasing_severity) OR (failed_interventions
\* AND current_crisis_level >= 7), where sustained_high_risk holds iff at
\* least 3 of the session's last 5 events have crisis_level >= 7 and
\* failed_interventions holds iff the session has more than 2 recorded events,
\* all read from the session's current history.
C24_EscalationDecision ==
  assessment # << >> =>
    LET a        == assessment[1]
        criteria == a.returned.criteria_met
    IN  /\ criteria.sustained_high_risk <=> HighAmongLastFive >= 3
        /\ criteria.failed_interventions <=> Len(a.history) > 2
        /\ criteria.immediate_danger <=> a.current_crisis_level >= 9
        /\ a.returned.escalation_needed <=>
             \/ a.current_crisis_level >= 9
             \/ HighAmongLastFive >= 3 /\ criteria.increasing_severity
             \/ Len(a.history) > 2 /\ a.current_crisis_level >= 7

\* a history of six events, three of them of level >= 7 but only two among
\* the last five: no sustained risk, and with a current level of 7 the
\* escalation rests on failed_interventions alone
C24_Witness ==
  /\ assessment # << >>
  /\ Len(assessment[1].history) = 6
  /\ assessment[1].history[1].crisis_level >= 7
  /\ HighAmongLastFive = 2
  /\ ~assessment[1].returned.criteria_met.sustained_high_risk
  /\ assessment[1].current_crisis_level = 7
  /\ assessment[1].returned.escalation_needed

\* the entry a verdict leaves in the session's event list
EntryOf(verdict) ==
  [ crisis_level |-> verdict.crisis_level, crisis_type |-> verdict.crisis_type ]

\* C27 as stated: every analyze_safety call that returns a verdict has
\* appended one entry to the session's in-memory crisis history, whose
\* crisis_level and crisis_type equal those of the returned verdict.
C27_ReturnedVerdictRecorded ==
  Returned =>
    \E i \in 1..Len(EventsOf(result[1].session_id)) :
      EventsOf(result[1].session_id)[i] = EntryOf(Verdict)

\* the calls on session s that have appended their entry: those that returned
\* a scored verdict, those that returned the fallback because
\* log_crisis_event raised, and those waiting for log_crisis_event
AppendingCalls(s) ==
    Cardinality({i \in 1..Len(returned[s]) :
                   ~returned[s][i].fallback \/ returned[s][i].logged = "failed"})
  + Cardinality({c \in Calls : pc[c] = "await_log" /\ frame[c].session_id = s})

\* C27 amended: every analyze_safety call that returns a scored verdict (not
\* the fallback) has appended exactly one entry to the session's in-memory
\* crisis history, with the verdict's crisis_level and crisis_type; a call
\* that returns the fallback has appended no entry when the failure came
\* before the tracking update, and one entry with the scored level and type
\* (not 8 / unknown) when log_crisis_event raised after it.
C27_ScoredVerdictRecorded ==
  /\ Returned /\ ~IsFallback(Verdict) =>
       \E i \in 1..Len(EventsOf(result[1].session_id)) :
         EventsOf(result[1].session_id)[i] = EntryOf(Verdict)
  /\ \A s \in Sessions : Len(EventsOf(s)) = AppendingCalls(s)
  /\ Returned /\ IsFallback(Verdict) =>
       \A i \in 1..Len(EventsOf(result[1].session_id)) :
         EventsOf(result[1].session_id)[i] # EntryOf(Verdict)

\* two calls on one session returned scored verdicts and the session holds
\* two entries, the last one of the last verdict
C27_Witness ==
  /\ Returned
  /\ ~IsFallback(Verdict)
  /\ Len(returned[result[1].session_id]) = 2
  /\ ~returned[result[1].session_id][1].fallback
  /\ Len(EventsOf(result[1].session_id)) = 2
  /\ EventsOf(result[1].session_id)[2] = EntryOf(Verdict)

\* the last direct call was of function fn
UnitCalled(fn) == unit_call # << >> /\ unit_call[1].fn = fn

PriorityTypes == {"suicide_risk", "violence_risk", "mental_health_emergency"}

\* the urgency the rules of C25 give, tabulated by level
UrgencyByRule(level, type, escalation) ==
  CASE level >= 9     -> "immediate"
    [] level \in 7..8 -> IF type \in PriorityTypes THEN "immediate" ELSE "urgent"
    [] level = 6      -> IF type \in PriorityTypes \/ escalation
                         THEN "urgent" ELSE "moderate"
    [] level = 5      -> IF type \in PriorityTypes THEN "urgent" ELSE "moderate"
    [] level \in 3..4 -> "low"
    [] OTHER          -> "none"

\* C25: _assess_urgency evaluates its rules top to bottom, first match wins:
\* level >= 9 gives immediate; a type in {suicide_risk, violence_risk,
\* mental_health_emergency} gives immediate at level >= 7 and urgent at
\* level >= 5; escalation_detected with level >= 6 gives urgent; otherwise
\* level >= 7 gives urgent, >= 5 moderate, >= 3 low, else none.
C25_UrgencyRules ==
  UnitCalled("_assess_urgency") =>
    unit_call[1].returned =
      UrgencyByRule(unit_call[1].args[1], unit_call[1].args[2],
                    unit_call[1].args[3].escalation_detected)

\* the context rule decides: level 6, escalation detected, a type outside the
\* three priority types, urgency urgent
C25_Witness ==
  /\ UnitCalled("_assess_urgency")
  /\ unit_call[1].args[1] = 6
  /\ unit_call[1].args[2] = "severe_depression"
  /\ unit_call[1].args[3].escalation_detected
  /\ unit_call[1].returned = "urgent"

\* the categories in the order of C26, each with its type
TypePriority ==
  << << "suicide", "suicide_risk" >>, << "self_harm", "self_harm_risk" >>,
     << "violence", "violence_risk" >>, << "psychosis", "mental_health_emergency" >>,
     << "substance_abuse", "substance_abuse" >>,
     << "hopelessness", "severe_depression" >>, << "isolation", "social_crisis" >> >>

\* C26: _determine_crisis_type returns the type of the first matched category
\* in the order suicide, self_harm, violence, psychosis, substance_abuse,
\* hopelessness, isolation; when no category matched it returns suicide_risk
\* if a finality or goodbye pattern matched and emotional_distress otherwise.
C26_TypePriority ==
  UnitCalled("_determine_crisis_type") =>
    LET matched  == DOMAIN unit_call[1].args[1].matches
        patterns == Range(unit_call[1].args[2].high_risk_patterns)
    IN  /\ \A i \in 1..Len(TypePriority) :
             /\ TypePriority[i][1] \in matched
             /\ \A j \in 1..(i - 1) : TypePriority[j][1] \notin matched
             => unit_call[1].returned = TypePriority[i][2]
        /\ matched = {} =>
             unit_call[1].returned =
               IF patterns \cap {"finality_statements", "goodbye_messages"} # {}
               THEN "suicide_risk" ELSE "emotional_distress"

\* self_harm and violence both matched, with a goodbye pattern: the type is
\* that of self_harm
C26_Witness ==
  /\ UnitCalled("_determine_crisis_type")
  /\ DOMAIN unit_call[1].args[1].matches = {"self_harm", "violence", "isolation"}
  /\ "goodbye_messages" \in Range(unit_call[1].args[2].high_risk_patterns)
  /\ unit_call[1].returned = "self_harm_risk"

\* C23: when the LLM-based analyzer is unavailable (service not ready) or its
\* call fails, analyze_crisis_indicators returns the result of the local
\* keyword detector for the text, never a default zero level obtained
\* without running it.
C23_FallbackWhenUnavailable ==
  llm_call # << >> /\ (~llm_call[1].ready \/ llm_call[1].reply = "raised") =>
    LET local == _fallback_crisis_detection(Text[llm_call[1].text])
    IN  /\ llm_call[1].returned.crisis_level = local.crisis_level
        /\ llm_call[1].returned.indicators = local.indicators

\* the text holds a key of RISK_AR or of RISK_EN
HoldsRiskKey(text) ==
  \/ \E i \in 1..Len(RISK_AR) : Contains(Lower(text), RISK_AR[i])
  \/ \E i \in 1..Len(RISK_EN) : Contains(Lower(text), RISK_EN[i])

TurnReturned == turn_call # << >> /\ turn_call[1].out # << >>

\* the dict the last turn returned
TurnOut == turn_call[1].out[1]

\* C28: handle_turn returns safety = "crisis" for every message that holds a
\* risk keyword of either list RISK_AR or RISK_EN, whatever language
\* detect_lang assigns to it (mixed Arabic/English text included).
C28_RiskKeyGivesCrisis ==
  TurnReturned /\ HoldsRiskKey(TurnText[turn_call[1].text]) =>
    TurnOut.safety = "crisis"

\* the functions handle_turn called, in order
CalledInTurn == [i \in 1..Len(turn_call[1].calls) |-> turn_call[1].calls[i][1]]

\* the turn was flagged by risk_detect or by the moderation check
TurnFlagged ==
  \/ turn_call[1].calls[1] = << "risk_detect", TRUE >>
  \/ turn_call[1].moderation = "flagged"

\* C29: in handle_turn the safety checks precede the chat model: for a turn
\* flagged by risk_detect or by the moderation check chat_reply is never
\* invoked and the result is the fixed crisis text with safety = "crisis";
\* chat_reply is invoked only after both checks returned false; a moderation
\* failure or absence counts as not flagged.
C29_ChecksPrecedeChat ==
  turn_call # << >> =>
    /\ TurnFlagged =>
         /\ "chat_reply" \notin Range(CalledInTurn)
         /\ TurnReturned =>
              /\ TurnOut.safety = "crisis"
              /\ TurnOut.text =
                   IF contains_arabic(TurnText[turn_call[1].text])
                   THEN crisis_text_ar ELSE crisis_text_en
    /\ "chat_reply" \in Range(CalledInTurn) =>
         /\ SubSeq(turn_call[1].calls, 1, 2) =
              << << "risk_detect", FALSE >>, << "openai_moderation_block", FALSE >> >>
         /\ CalledInTurn[3] = "chat_reply"
    /\ turn_call[1].moderation \in {"raised", "no client"} =>
         "chat_reply" \in Range(CalledInTurn)

\* the moderation call raised on a text without risk key, and the turn went
\* on to the chat model and returned its reply with safety ok
C29_Witness ==
  /\ TurnReturned
  /\ turn_call[1].moderation = "raised"
  /\ CalledInTurn = << "risk_detect", "openai_moderation_block", "chat_reply", "tts_to_mp3" >>
  /\ TurnOut.safety = "ok"

\* the positions of the frames of one type among the frames handed to
\* send_text
FramesOfType(sent, type) == {i \in 1..Len(sent) : sent[i].type = type}

\* the step answered the inbound frame with one of the three plain errors
AnsweredWithPlainError ==
  /\ Len(ws_sent') > Len(ws_sent)
  /\ ws_sent'[Len(ws_sent')].type = "error"
  /\ ws_sent'[Len(ws_sent')].message \in {"bad_json", "empty_message", "unknown_type"}

\* the step completed a turn: handle_turn returned and one more
\* text_response has been handed to send_text
CompletedTurn ==
  Cardinality(FramesOfType(ws_sent', "text_response"))
    > Cardinality(FramesOfType(ws_sent, "text_response"))

\* what C30 asks of one step of the connection; a frame counts as sent unless
\* its send_text raised
C30_Step ==
  /\ Cardinality(FramesOfType(ws_sent', "notice") \ ws_raised') <= 1
  /\ \A i \in FramesOfType(ws_sent', "text_response") :
       \E j \in FramesOfType(ws_sent', "notice") \ ws_raised' : j < i
  /\ AnsweredWithPlainError =>
       /\ ws_sent' = Append(ws_sent, ws_sent'[Len(ws_sent')])
       /\ ws_history' = ws_history
       /\ showed_disclaimer' = showed_disclaimer
  /\ ( /\ ws_pc = "send_error"
       /\ ws_sent[Len(ws_sent)].message # "audio_error" ) =>
       /\ ws_sent' = ws_sent
       /\ ws_history' = ws_history
       /\ showed_disclaimer' = showed_disclaimer
  /\ CompletedTurn =>
       /\ Len(ws_history') = Len(ws_history) + 2
       /\ SubSeq(ws_history', 1, Len(ws_history)) = ws_history
       /\ ws_history'[Len(ws_history) + 1].role = "user"
       /\ ws_history'[Len(ws_history) + 2].role = "assistant"
       /\ \E i \in FramesOfType(ws_sent', "text_response") :
            /\ i > Len(ws_sent)
            /\ ws_sent'[i].response = ws_history'[Len(ws_history) + 2].content
  /\ ws_history' # ws_history => CompletedTurn

\* C30: on one WebSocket connection, for any sequence of inbound frames, the
\* disclaimer notice is sent at most once and before the first
\* text_response; frames answered with bad_json, empty_message or
\* unknown_type neither send the disclaimer nor change the history; each
\* completed turn appends exactly two history entries, user then assistant.
C30_DisclaimerOnceHistoryPaired == [][C30_Step]_vars

\* two turns completed with a bad_json frame between them, every send
\* returned: one notice, sent first, and four history entries
C30_Witness ==
  /\ Len(ws_sent) = 4
  /\ ws_sent[1].type = "notice"
  /\ ws_sent[2].type = "text_response"
  /\ ws_sent[3] = ErrorFrame("bad_json")
  /\ ws_sent[4].type = "text_response"
  /\ ws_raised = {}
  /\ ws_pc = "receive"
  /\ Len(ws_history) = 4
  /\ showed_disclaimer
====
